---- MODULE Spec2Model ----
(***************************************************************************)
(* A model of claude-wt's resolver / classifier / naming layer:            *)
(*   claude_wt/identifier.py  - identifier detection and normalisation     *)
(*   claude_wt/session.py     - tmux session names                         *)
(*   claude_wt/repository.py  - repository path resolution                 *)
(*   claude_wt/core.py        - the worktree base directory                *)
(*                                                                         *)
(* A Python str is a sequence of one-character strings, so that regular    *)
(* expressions, str.lower, str.replace, str.strip and pathlib's parsing    *)
(* are computed character by character, as the interpreter computes them.  *)
(***************************************************************************)
EXTENDS Integers, Sequences, FiniteSets, TLC

VARIABLES
    identifier,     \* identifier.py / session.py: the str argument of the call
    repo_name,      \* session.py: generate_session_name's first argument
    called,         \* the function of identifier.py / session.py that was called
    returned,       \* its return value
    explicit_path,  \* repository.py: resolve_repo_path's explicit_path (None or str)
    task_uda,       \* repository.py: resolve_repo_path's task_uda (None or dict)
    cwd,            \* the process's current working directory (a resolved Path)
    toplevel,       \* the toplevel directory git reports for cwd, when git succeeds
    pc,             \* where the resolve_repo_path call stands
    result,         \* what resolve_repo_path returned or raised
    git_calls,      \* number of times subprocess.run(["git", "rev-parse", ...]) ran
    worktree_base,  \* core.py: get_worktree_base(result), once computed
    checkout,       \* the repository the command runs in: what git rev-parse --show-toplevel prints
    dirs,           \* the worktree directories that exist on the filesystem (Paths)
    heads,          \* the repository's local branches (refs/heads/*)
    worktrees,      \* the linked worktrees git has registered, in git's listing order
    sessions,       \* the tmux server's sessions
    clock,          \* datetime.now(), as an index into Timestamps
    history,        \* the commands run so far, each with what it issued and printed
    procs,          \* create_new_worktree running in two processes: each one's position
    files,          \* the CLAUDE.md and hook files on the filesystem, each with its content
    writes          \* the writes to files so far, in the order they happened

identVars == <<identifier, repo_name, called, returned>>
repoVars == <<explicit_path, task_uda, cwd, toplevel, pc, result, git_calls, worktree_base>>
raceVars == <<procs, files, writes>>
workVars == <<checkout, dirs, heads, worktrees, sessions, clock, history, raceVars>>
vars == <<identifier, repo_name, called, returned,
          explicit_path, task_uda, cwd, toplevel, pc, result, git_calls, worktree_base,
          checkout, dirs, heads, worktrees, sessions, clock, history,
          procs, files, writes>>

\* An Optional value: None, or Some(v) for a value v
None == <<>>

Some(v) == <<v>>

(***************************************************************************)
(* Characters and str methods                                              *)
(***************************************************************************)
ascii_lowercase ==
    <<"a","b","c","d","e","f","g","h","i","j","k","l","m",
      "n","o","p","q","r","s","t","u","v","w","x","y","z">>

ascii_uppercase ==
    <<"A","B","C","D","E","F","G","H","I","J","K","L","M",
      "N","O","P","Q","R","S","T","U","V","W","X","Y","Z">>

Range(f) == {f[i] : i \in DOMAIN f}

IsLower(c) == c \in Range(ascii_lowercase)

IsUpper(c) == c \in Range(ascii_uppercase)

IsAsciiLetter(c) == IsLower(c) \/ IsUpper(c)

\* \d on the characters of the model (all of them ASCII)
IsDigit(c) == c \in {"0","1","2","3","4","5","6","7","8","9"}

\* str.isspace on the characters of the model
IsSpace(c) == c \in {" ", "\n", "\t", "\r"}

LowerChar(c) ==
    IF IsUpper(c)
    THEN ascii_lowercase[CHOOSE i \in DOMAIN ascii_uppercase : ascii_uppercase[i] = c]
    ELSE c

UpperChar(c) ==
    IF IsLower(c)
    THEN ascii_uppercase[CHOOSE i \in DOMAIN ascii_lowercase : ascii_lowercase[i] = c]
    ELSE c

\* str.lower()
StrLower(s) == [i \in DOMAIN s |-> LowerChar(s[i])]

\* str.upper()
StrUpper(s) == [i \in DOMAIN s |-> UpperChar(s[i])]

\* str.startswith(prefix)
StartsWith(s, prefix) ==
    /\ Len(s) >= Len(prefix)
    /\ SubSeq(s, 1, Len(prefix)) = prefix

\* str.replace(old, new) for a one-character old
RECURSIVE ReplaceChar(_, _, _)
ReplaceChar(s, old, new) ==
    IF s = <<>> THEN <<>>
    ELSE (IF Head(s) = old THEN new ELSE <<Head(s)>>) \o ReplaceChar(Tail(s), old, new)

\* str.strip(): leading and trailing whitespace removed
RECURSIVE LStrip(_)
LStrip(s) == IF s # <<>> /\ IsSpace(Head(s)) THEN LStrip(Tail(s)) ELSE s

RECURSIVE RStrip(_)
RStrip(s) ==
    IF s # <<>> /\ IsSpace(s[Len(s)]) THEN RStrip(SubSeq(s, 1, Len(s) - 1)) ELSE s

Strip(s) == RStrip(LStrip(s))

(***************************************************************************)
(* Regular expressions of identifier.py, as re matches them                *)
(***************************************************************************)
\* `$` without re.MULTILINE: the end of the string, or just before a newline
\* that ends the string.  pos is the index of the next character to read.
AtDollar(s, pos) ==
    \/ pos = Len(s) + 1
    \/ pos = Len(s) /\ s[pos] = "\n"

\* \d+ matching exactly s[from .. to-1]
DigitRun(s, from, to) ==
    /\ from < to
    /\ to <= Len(s) + 1
    /\ \A i \in from..(to - 1) : IsDigit(s[i])

\* a literal matched under re.IGNORECASE at s[pos ..]
LiteralAt(s, pos, lit) ==
    /\ pos + Len(lit) - 1 <= Len(s)
    /\ \A i \in 1..Len(lit) : LowerChar(s[pos + i - 1]) = LowerChar(lit[i])

\* [A-Z]{lo,hi} under re.IGNORECASE matching exactly s[1 .. n]
LetterRun(s, n) ==
    /\ n <= Len(s)
    /\ \A i \in 1..n : IsAsciiLetter(s[i])

\* re.match(r"^[A-Z]{2,4}-\d+$", s, re.IGNORECASE)
MatchLinearPattern(s) ==
    \E n \in 2..4 : \E e \in (n + 2)..(Len(s) + 1) :
        /\ LetterRun(s, n)
        /\ LiteralAt(s, n + 1, <<"-">>)
        /\ DigitRun(s, n + 2, e)
        /\ AtDollar(s, e)

github_url_prefix ==
    <<"h","t","t","p","s",":","/","/","g","i","t","h","u","b",".","c","o","m","/">>

pull_segment == <<"/","p","u","l","l","/">>

\* \d+$ from position p
DigitsToDollar(s, p) ==
    \E e \in (p + 1)..(Len(s) + 1) : DigitRun(s, p, e) /\ AtDollar(s, e)

\* re.match(r"^(\d+|PR-\d+|pr-\d+|https://github\.com/.*/pull/\d+)$", s, re.IGNORECASE)
\* `.` matches any character but a newline
MatchPrPattern(s) ==
    \/ DigitsToDollar(s, 1)
    \/ LiteralAt(s, 1, <<"P","R","-">>) /\ DigitsToDollar(s, 4)
    \/ LiteralAt(s, 1, <<"p","r","-">>) /\ DigitsToDollar(s, 4)
    \/ /\ LiteralAt(s, 1, github_url_prefix)
       /\ \E q \in (Len(github_url_prefix) + 1)..Len(s) :
            /\ \A i \in (Len(github_url_prefix) + 1)..(q - 1) : s[i] # "\n"
            /\ LiteralAt(s, q, pull_segment)
            /\ DigitsToDollar(s, q + Len(pull_segment))

\* re.search(r"(\d+)", s): the leftmost digit run, as long as it goes; <<>> for no match
SearchDigits(s) ==
    LET starts == {i \in DOMAIN s : IsDigit(s[i])}
    IN  IF starts = {} THEN <<>>
        ELSE LET b == CHOOSE i \in starts : \A j \in starts : i <= j
                 e == CHOOSE k \in b..Len(s) :
                        /\ \A i \in b..k : IsDigit(s[i])
                        /\ (k = Len(s) \/ ~IsDigit(s[k + 1]))
             IN  SubSeq(s, b, e)

(***************************************************************************)
(* identifier.py                                                           *)
(***************************************************************************)
\* is_linear_issue without its "PR-" exclusion
is_linear_issue_without_pr_check(s) == MatchLinearPattern(s)

is_linear_issue(s) ==
    IF StartsWith(StrUpper(s), <<"P","R","-">>)
    THEN FALSE
    ELSE MatchLinearPattern(s)

is_pr_number(s) == MatchPrPattern(s)

extract_pr_number(s) == SearchDigits(s)

\* normalize_linear_id without .lower()
normalize_linear_id_without_lower(issue_id) == ReplaceChar(issue_id, "/", <<"-">>)

normalize_linear_id(issue_id) == ReplaceChar(StrLower(issue_id), "/", <<"-">>)

detect_identifier_type(s) ==
    IF is_linear_issue(s) THEN "linear"
    ELSE IF is_pr_number(s) THEN "pr"
    ELSE "custom"

(***************************************************************************)
(* session.py                                                              *)
(***************************************************************************)
generate_session_name(repo, ident) ==
    LET sanitized == ReplaceChar(ident, "/", <<"-">>)
    IN  repo \o <<"-">> \o sanitized

(***************************************************************************)
(* The arguments the functions of identifier.py and session.py are called  *)
(* with: every string of at most MaxLen characters of Alphabet, and the    *)
(* strings of the shapes the functions tell apart.                         *)
(***************************************************************************)
MaxLen == 3

Alphabet == {"D", "P", "R", "p", "r", "-", "/", "1", "\n"}

FreeStrings == UNION {[1..n -> Alphabet] : n \in 0..MaxLen}

LetterHeads ==
    { <<>>,
      <<"D">>,
      <<"D","O">>,
      <<"D","O","C">>,
      <<"D","o","c">>,
      <<"P","L","A","T">>,
      <<"A","B","C","D","E">>,
      <<"P","R">>,
      <<"p","r">>,
      <<"P","r">>,
      <<"P","R","X">>,
      <<"f","e","a","t","u","r","e">> }

Separators ==
    { <<>>,
      <<"-">>,
      <<"/">> }

DigitParts ==
    { <<>>,
      <<"1">>,
      <<"1","2","3">> }

Tails ==
    { <<>>,
      <<"\n">>,
      <<"-","b","r","a","n","c","h">> }

ShapedStrings ==
    {h \o sep \o d \o t : h \in LetterHeads, sep \in Separators, d \in DigitParts, t \in Tails}

UrlPrefixes ==
    { <<"h","t","t","p","s",":","/","/","g","i","t","h","u","b",".","c","o","m","/">>,
      <<"H","T","T","P","S",":","/","/","G","I","T","H","U","B",".","C","O","M","/">>,
      <<"h","t","t","p",":","/","/","g","i","t","h","u","b",".","c","o","m","/">> }

UrlRepos ==
    { <<"o","/","r">>,
      <<"o","r","g","/","r","e","p","o">>,
      <<"o","2","/","r">>,
      <<"P","i","o","t","r","1","2","1","5","/","c","l","a","u","d","e","-","w","t">>,
      <<>> }

UrlSegments ==
    { <<"/","p","u","l","l","/">>,
      <<"/","P","U","L","L","/">>,
      <<"/","i","s","s","u","e","s","/">> }

UrlTails ==
    { <<>>,
      <<"\n">>,
      <<"/","f","i","l","e","s">> }

UrlStrings ==
    {p \o r \o seg \o d \o t :
        p \in UrlPrefixes, r \in UrlRepos, seg \in UrlSegments, d \in DigitParts, t \in UrlTails}

Identifiers == FreeStrings \cup ShapedStrings \cup UrlStrings

RepoNames ==
    { <<"v","c","l","u","s","t","e","r","-","d","o","c","s">>,
      <<"m","y","-","p","r","o","j","e","c","t">>,
      <<"r","e","p","o">> }

(***************************************************************************)
(* Calls of identifier.py and session.py                                   *)
(***************************************************************************)
IdentIdle ==
    /\ identifier = None
    /\ repo_name = None
    /\ called = "nothing"
    /\ returned = None

RepoIdle ==
    /\ explicit_path = None
    /\ task_uda = None
    /\ cwd = None
    /\ toplevel = None
    /\ pc = "idle"
    /\ result = None
    /\ git_calls = 0
    /\ worktree_base = None

RaceIdle ==
    /\ procs = <<>>
    /\ files = {}
    /\ writes = <<>>

WorkIdle ==
    /\ checkout = None
    /\ dirs = {}
    /\ heads = {}
    /\ worktrees = <<>>
    /\ sessions = {}
    /\ clock = 0
    /\ history = <<>>
    /\ RaceIdle

IdentInit ==
    /\ identifier \in Identifiers
    /\ repo_name = None
    /\ called = "nothing"
    /\ returned = None
    /\ RepoIdle
    /\ WorkIdle

Return(fn, value) ==
    /\ called = "nothing"
    /\ called' = fn
    /\ returned' = value
    /\ UNCHANGED <<identifier, repoVars, workVars>>

CallIsLinearIssue ==
    /\ Return("is_linear_issue", is_linear_issue(identifier))
    /\ UNCHANGED repo_name

CallIsPrNumber ==
    /\ Return("is_pr_number", is_pr_number(identifier))
    /\ UNCHANGED repo_name

CallExtractPrNumber ==
    /\ Return("extract_pr_number", extract_pr_number(identifier))
    /\ UNCHANGED repo_name

CallDetectIdentifierType ==
    /\ Return("detect_identifier_type", detect_identifier_type(identifier))
    /\ UNCHANGED repo_name

CallNormalizeLinearId ==
    /\ Return("normalize_linear_id", normalize_linear_id(identifier))
    /\ UNCHANGED repo_name

\* normalize_linear_id applied to its own result: returned becomes the pair of
\* the first call's result and the second call's result
CallNormalizeLinearIdAgain ==
    /\ called = "normalize_linear_id"
    /\ called' = "normalize_linear_id_again"
    /\ returned' = <<returned, normalize_linear_id(returned)>>
    /\ UNCHANGED <<identifier, repo_name, repoVars, workVars>>

CallGenerateSessionName ==
    \E repo \in RepoNames :
        /\ Return("generate_session_name", generate_session_name(repo, identifier))
        /\ repo_name' = repo

IdentNext ==
    \/ CallIsLinearIssue
    \/ CallIsPrNumber
    \/ CallExtractPrNumber
    \/ CallDetectIdentifierType
    \/ CallNormalizeLinearId
    \/ CallNormalizeLinearIdAgain
    \/ CallGenerateSessionName

SpecIdent == IdentInit /\ [][IdentNext]_vars

(***************************************************************************)
(* Properties of identifier.py and session.py                              *)
(***************************************************************************)
AllDigits(s) == s # <<>> /\ \A i \in DOMAIN s : IsDigit(s[i])

\* 2 to 4 ASCII letters, a hyphen, one or more digits, and nothing else
LinearShape(s) ==
    \E n \in 2..4 :
        /\ Len(s) >= n + 2
        /\ \A i \in 1..n : IsAsciiLetter(s[i])
        /\ s[n + 1] = "-"
        /\ AllDigits(SubSeq(s, n + 2, Len(s)))

\* a GitHub URL https://github.com/.../pull/<digits>
PullUrlShape(s) ==
    /\ StartsWith(s, github_url_prefix)
    /\ \E q \in (Len(github_url_prefix) + 1)..Len(s) :
        /\ q + Len(pull_segment) - 1 <= Len(s)
        /\ SubSeq(s, q, q + Len(pull_segment) - 1) = pull_segment
        /\ AllDigits(SubSeq(s, q + Len(pull_segment), Len(s)))

\* C4: is_linear_issue(s) is true if and only if s is 2 to 4 ASCII letters, a
\* hyphen and one or more digits, and does not start with "PR-" in any case.
C4_IsLinearIssueIffShape ==
    called = "is_linear_issue" =>
        (returned <=> (LinearShape(identifier)
                        /\ ~StartsWith(StrUpper(identifier), <<"P","R","-">>)))

\* C5: is_pr_number(s) is true if and only if s is all digits, or exactly
\* "PR-<digits>" or "pr-<digits>", or a GitHub URL .../pull/<digits>.
C5_IsPrNumberIffShape ==
    called = "is_pr_number" =>
        (returned <=>
            \/ AllDigits(identifier)
            \/ /\ StartsWith(identifier, <<"P","R","-">>)
               /\ AllDigits(SubSeq(identifier, 4, Len(identifier)))
            \/ /\ StartsWith(identifier, <<"p","r","-">>)
               /\ AllDigits(SubSeq(identifier, 4, Len(identifier)))
            \/ PullUrlShape(identifier))

\* owner/repository parts of a URL: both names non-empty
OwnerAndRepo == {r \in UrlRepos : r # <<>>}

\* the identifiers that carry PR number n in one of the three accepted forms
PrFormsOf(n) ==
    {n, <<"P","R","-">> \o n, <<"p","r","-">> \o n}
    \cup {github_url_prefix \o r \o pull_segment \o n : r \in OwnerAndRepo}

\* C6: for an identifier in one of the three accepted PR forms (plain <n>,
\* PR-<n> / pr-<n>, https://github.com/<owner>/<repo>/pull/<n> for any owner
\* and repository name), extract_pr_number returns exactly <n>.
C6_ExtractReturnsPrNumber ==
    called = "extract_pr_number" =>
        \A n \in DigitParts \ {<<>>} :
            identifier \in PrFormsOf(n) => returned = n

\* C7: detect_identifier_type returns exactly one of linear, pr, custom:
\* linear whenever is_linear_issue holds, otherwise pr whenever is_pr_number
\* holds, otherwise custom; "PR-<digits>" is always pr and never linear.
C7_DetectIdentifierType ==
    called = "detect_identifier_type" =>
        /\ returned \in {"linear", "pr", "custom"}
        /\ (returned = "linear") <=> is_linear_issue(identifier)
        /\ (returned = "pr") <=> (~is_linear_issue(identifier) /\ is_pr_number(identifier))
        /\ (StartsWith(identifier, <<"P","R","-">>)
              /\ AllDigits(SubSeq(identifier, 4, Len(identifier)))) => returned = "pr"

C7_Witness ==
    /\ called = "detect_identifier_type"
    /\ identifier = <<"P","R","-","1","2","3">>
    /\ returned = "pr"

MaxCaseLetters == 5

SwapCase(s) == [i \in DOMAIN s |-> IF IsUpper(s[i]) THEN LowerChar(s[i]) ELSE UpperChar(s[i])]

RECURSIVE AllCaseVariants(_)
AllCaseVariants(s) ==
    IF s = <<>> THEN {<<>>}
    ELSE {<<c>> \o v : c \in {LowerChar(Head(s)), UpperChar(Head(s))},
                       v \in AllCaseVariants(Tail(s))}

\* the letter-case variants of s: all of them for a string of at most
\* MaxCaseLetters letters, and upper, lower and swapped case for a longer one
CaseVariants(s) ==
    IF Cardinality({i \in DOMAIN s : IsAsciiLetter(s[i])}) <= MaxCaseLetters
    THEN AllCaseVariants(s)
    ELSE {StrUpper(s), StrLower(s), SwapCase(s)}

C10_SessionNameLowercased ==
    called = "generate_session_name" =>
        returned = repo_name \o <<"-">> \o ReplaceChar(StrLower(identifier), "/", <<"-">>)

(***************************************************************************)
(* pathlib: a Path is its root flag and its parts (PurePosixPath; no path  *)
(* of the model starts with exactly two slashes, and no directory of the   *)
(* model is a symbolic link)                                               *)
(***************************************************************************)
FirstIndex(s, c) == CHOOSE i \in DOMAIN s : s[i] = c /\ \A j \in 1..(i - 1) : s[j] # c

\* str.split(sep) for a one-character sep
RECURSIVE SplitOn(_, _)
SplitOn(s, sep) ==
    IF sep \notin Range(s) THEN <<s>>
    ELSE LET i == FirstIndex(s, sep)
         IN  <<SubSeq(s, 1, i - 1)>> \o SplitOn(SubSeq(s, i + 1, Len(s)), sep)

IsPathPart(c) == c # <<>> /\ c # <<".">>

\* Path(s): empty and "." components are dropped, ".." is kept
PathOf(s) ==
    [root |-> s # <<>> /\ s[1] = "/",
     parts |-> SelectSeq(SplitOn(s, "/"), IsPathPart)]

RECURSIVE JoinParts(_)
JoinParts(parts) ==
    IF parts = <<>> THEN <<>>
    ELSE IF Len(parts) = 1 THEN parts[1]
    ELSE parts[1] \o <<"/">> \o JoinParts(Tail(parts))

\* str(path)
PathStr(p) ==
    IF p.root THEN <<"/">> \o JoinParts(p.parts)
    ELSE IF p.parts = <<>> THEN <<".">>
    ELSE JoinParts(p.parts)

\* path.name
PathName(p) == IF p.parts = <<>> THEN <<>> ELSE p.parts[Len(p.parts)]

\* path.parent
PathParent(p) ==
    IF p.parts = <<>> THEN p
    ELSE [p EXCEPT !.parts = SubSeq(p.parts, 1, Len(p.parts) - 1)]

\* path / other
PathJoin(p, q) == IF q.root THEN q ELSE [root |-> p.root, parts |-> p.parts \o q.parts]

RECURSIVE CollapseDotDot(_, _)
CollapseDotDot(parts, acc) ==
    IF parts = <<>> THEN acc
    ELSE IF Head(parts) = <<".", ".">>
         THEN CollapseDotDot(Tail(parts),
                             IF acc = <<>> THEN <<>> ELSE SubSeq(acc, 1, Len(acc) - 1))
         ELSE CollapseDotDot(Tail(parts), Append(acc, Head(parts)))

\* path.resolve() in working directory wd: made absolute, ".." collapsed
PathResolve(wd, p) ==
    [root |-> TRUE,
     parts |-> CollapseDotDot(IF p.root THEN p.parts ELSE wd.parts \o p.parts, <<>>)]

(***************************************************************************)
(* core.py                                                                 *)
(***************************************************************************)
worktrees_suffix == <<"-","w","o","r","k","t","r","e","e","s">>

\* a worktree base nested in the repository instead of beside it
get_worktree_base_inside_repo(repo_root) ==
    PathJoin(repo_root, PathOf(PathName(repo_root) \o worktrees_suffix))

get_worktree_base(repo_root) ==
    LET name == PathName(repo_root)
    IN  PathJoin(PathParent(repo_root), PathOf(name \o worktrees_suffix))

(***************************************************************************)
(* repository.py                                                           *)
(***************************************************************************)
\* bool(x) of an Optional[str]: neither None nor ""
TruthyStr(x) == x # None /\ x[1] # <<>>

\* bool(x) of an Optional[dict]: neither None nor {}
TruthyDict(x) == x # None /\ DOMAIN x[1] # {}

\* dict.get(key) of the dict in x
Get(x, key) == IF key \in DOMAIN x[1] THEN Some(x[1][key]) ELSE None

Returned(path) == [kind |-> "path", path |-> path]

Raised(message) == [kind |-> "RepositoryResolutionError", message |-> message]

\* the f-string of lines 55-57: its text and the value it interpolates
ShortNameMessage(name) ==
    [template |-> "Cannot resolve short name '{repo_name}'. Please set 'repo_path' UDA field with full path. Example: task {repo_name} modify repo_path:/full/path/to/{repo_name}",
     repo_name |-> name]

cannot_determine_template ==
    "Cannot determine repository path. You must either:\n1. Run from within a git repository, OR\n2. Provide --repo-path flag, OR\n3. Set 'repo_path' UDA field in taskwarrior\nError: {e}"

\* the f-string of lines 84-88: its text and the exception it interpolates
CannotDetermineMessage(e) == [template |-> cannot_determine_template, e |-> e]

CallGit == [kind |-> "_resolve_from_current_directory"]

\* resolve_repo_path with the UDA field checked before the explicit path
resolve_repo_path_uda_first(explicit, uda, wd) ==
    IF TruthyDict(uda) /\ TruthyStr(Get(uda, "repo_path"))
    THEN Returned(PathResolve(wd, PathOf(uda[1]["repo_path"])))
    ELSE IF TruthyStr(explicit)
    THEN Returned(PathResolve(wd, PathOf(explicit[1])))
    ELSE IF TruthyDict(uda) /\ TruthyStr(Get(uda, "repo"))
    THEN Raised(ShortNameMessage(uda[1]["repo"]))
    ELSE CallGit

\* resolve_repo_path falling back to the current directory for a short name
resolve_repo_path_short_name_fallback(explicit, uda, wd) ==
    IF TruthyStr(explicit)
    THEN Returned(PathResolve(wd, PathOf(explicit[1])))
    ELSE IF TruthyDict(uda) /\ TruthyStr(Get(uda, "repo_path"))
    THEN Returned(PathResolve(wd, PathOf(uda[1]["repo_path"])))
    ELSE CallGit

\* resolve_repo_path up to its last line: what it returns or raises, or the
\* call of _resolve_from_current_directory it ends with
resolve_repo_path(explicit, uda, wd) ==
    IF TruthyStr(explicit)
    THEN Returned(PathResolve(wd, PathOf(explicit[1])))
    ELSE IF TruthyDict(uda) /\ TruthyStr(Get(uda, "repo_path"))
    THEN Returned(PathResolve(wd, PathOf(uda[1]["repo_path"])))
    ELSE IF TruthyDict(uda) /\ TruthyStr(Get(uda, "repo"))
    THEN Raised(ShortNameMessage(uda[1]["repo"]))
    ELSE CallGit

\* Path(result.stdout.strip())
git_stdout_to_path(stdout) == PathOf(Strip(stdout))

(***************************************************************************)
(* The calls of resolve_repo_path                                          *)
(***************************************************************************)
ExplicitPathStrings ==
    { <<>>,
      <<"/">>,
      <<"/","w","/","a","p","p">>,
      <<"a","p","p">>,
      <<".",".","/","l","i","b">>,
      <<"/","w","/",".","/","a","p","p","/",".",".","/","m","y",".","r","e","p","o","_","v","2","-","x","/">> }

UdaKeys == {"repo_path", "repo"}

UdaValues ==
    { <<>>,
      <<"/","w","/","u","d","a">>,
      <<"d","o","c","s">> }

TaskUdas == UNION {[keys -> UdaValues] : keys \in SUBSET UdaKeys}

CwdStrings ==
    { <<"/">>,
      <<"/","w","/","a","p","p","/","s","r","c">>,
      <<"/","w","/","x"," ","/","s","r","c">> }

\* the directories that exist: wd and the directories above it
ExistingDirs(wd) ==
    {[root |-> TRUE, parts |-> SubSeq(wd.parts, 1, n)] : n \in 0..Len(wd.parts)}

GitErrors == {"CalledProcessError", "FileNotFoundError", "Exception"}

RepoInit ==
    /\ explicit_path \in {None} \cup {Some(p) : p \in ExplicitPathStrings}
    /\ task_uda \in {None} \cup {Some(d) : d \in TaskUdas}
    /\ cwd \in {PathOf(c) : c \in CwdStrings}
    /\ toplevel = None
    /\ pc = "call"
    /\ result = None
    /\ git_calls = 0
    /\ worktree_base = None
    /\ IdentIdle
    /\ WorkIdle

\* resolve_repo_path(explicit_path, task_uda), lines 43-61
ResolveRepoPath ==
    /\ pc = "call"
    /\ LET r == resolve_repo_path(explicit_path, task_uda, cwd)
       IN  IF r.kind = "path" THEN pc' = "returned" /\ result' = r
           ELSE IF r.kind = "RepositoryResolutionError" THEN pc' = "raised" /\ result' = r
           ELSE pc' = "git" /\ result' = result
    /\ UNCHANGED <<explicit_path, task_uda, cwd, toplevel, git_calls, worktree_base, identVars, workVars>>

\* _resolve_from_current_directory, lines 75-81: git exits 0 and prints the
\* toplevel of the repository that holds cwd
GitRevParseSucceeds ==
    /\ pc = "git"
    /\ \E t \in ExistingDirs(cwd) :
        /\ toplevel' = t
        /\ result' = Returned(git_stdout_to_path(PathStr(t) \o <<"\n">>))
    /\ git_calls' = git_calls + 1
    /\ pc' = "returned"
    /\ UNCHANGED <<explicit_path, task_uda, cwd, worktree_base, identVars, workVars>>

\* _resolve_from_current_directory, lines 82-89: subprocess.run raises
GitRevParseFails ==
    /\ pc = "git"
    /\ \E e \in GitErrors : result' = Raised(CannotDetermineMessage(e))
    /\ git_calls' = git_calls + 1
    /\ pc' = "raised"
    /\ UNCHANGED <<explicit_path, task_uda, cwd, toplevel, worktree_base, identVars, workVars>>

\* linear.py line 44: worktree_base = get_worktree_base(repo_root)
GetWorktreeBase ==
    /\ pc = "returned"
    /\ worktree_base' = get_worktree_base(result.path)
    /\ pc' = "based"
    /\ UNCHANGED <<explicit_path, task_uda, cwd, toplevel, result, git_calls, identVars, workVars>>

RepoNext ==
    \/ ResolveRepoPath
    \/ GitRevParseSucceeds
    \/ GitRevParseFails
    \/ GetWorktreeBase

SpecRepo == RepoInit /\ [][RepoNext]_vars

(***************************************************************************)
(* Properties of repository.py and core.py                                 *)
(***************************************************************************)
NoExplicitPath == ~TruthyStr(explicit_path)

HasUdaRepoPath == TruthyDict(task_uda) /\ TruthyStr(Get(task_uda, "repo_path"))

HasUdaRepo == TruthyDict(task_uda) /\ TruthyStr(Get(task_uda, "repo"))

Called == pc # "call"

\* s is the text of an absolute path without ".", ".." or doubled slashes
IsAbsoluteForm(s) ==
    /\ PathOf(s).root
    /\ PathStr(PathOf(s)) = s
    /\ <<".", ".">> \notin Range(PathOf(s).parts)

\* resolve_repo_path returned the absolute form of the path text s, without git
ReturnedAbsoluteFormOf(s) ==
    /\ pc \in {"returned", "based"}
    /\ result.kind = "path"
    /\ result.path = PathResolve(cwd, PathOf(s))
    /\ IsAbsoluteForm(PathStr(result.path))
    /\ IsAbsoluteForm(s) => PathStr(result.path) = s
    /\ git_calls = 0

\* C1: a non-empty explicit_path is returned in absolute form for every
\* task_uda; otherwise a non-empty task_uda["repo_path"] is returned in absolute
\* form even if "repo" is set; in neither case is git invoked, and the path
\* need not exist.
C1_EarlierInputsWin ==
    Called =>
        /\ ~NoExplicitPath => ReturnedAbsoluteFormOf(explicit_path[1])
        /\ (NoExplicitPath /\ HasUdaRepoPath) =>
                ReturnedAbsoluteFormOf(task_uda[1]["repo_path"])

C1_Witness ==
    /\ pc = "returned"
    /\ explicit_path = Some(<<"/","w","/","a","p","p">>)
    /\ HasUdaRepoPath
    /\ HasUdaRepo
    /\ result.path = PathOf(<<"/","w","/","a","p","p">>)
    /\ result.path \notin ExistingDirs(cwd)
    /\ git_calls = 0

\* C2: with no explicit path and a task_uda that has a "repo" short name but
\* no "repo_path", resolve_repo_path raises RepositoryResolutionError with a
\* message that mentions the short name; git is not invoked and no path is
\* returned.
C2_ShortNameIsRejected ==
    (Called /\ NoExplicitPath /\ ~HasUdaRepoPath /\ HasUdaRepo) =>
        /\ pc = "raised"
        /\ result.kind = "RepositoryResolutionError"
        /\ result.message.repo_name = task_uda[1]["repo"]
        /\ git_calls = 0

C2_Witness ==
    /\ pc = "raised"
    /\ explicit_path = None
    /\ task_uda = Some([repo |-> <<"d","o","c","s">>])
    /\ result.kind = "RepositoryResolutionError"
    /\ git_calls = 0

\* C3: with no explicit path, no "repo_path" and no "repo", git is asked for
\* the toplevel of the current directory exactly once: on success the path git
\* reported is returned; on any failure RepositoryResolutionError with "Cannot
\* determine repository" is raised and no path is returned.
C3_GitToplevelOrError ==
    (Called /\ NoExplicitPath /\ ~HasUdaRepoPath /\ ~HasUdaRepo) =>
        /\ pc = "git" => git_calls = 0
        /\ pc # "git" => git_calls = 1
        /\ pc \in {"returned", "based"} => result = Returned(toplevel)
        /\ pc = "raised" =>
            /\ result.kind = "RepositoryResolutionError"
            /\ result.message.template = cannot_determine_template

\* base lies below r
Inside(base, r) ==
    /\ base.root = r.root
    /\ Len(base.parts) > Len(r.parts)
    /\ SubSeq(base.parts, 1, Len(r.parts)) = r.parts

\* base has r's parent directory and r's name followed by "-worktrees"
SiblingOf(base, r) ==
    /\ base.root = r.root
    /\ PathParent(base) = PathParent(r)
    /\ PathName(base) = PathName(r) \o worktrees_suffix

\* C9 as claimed: for every repository root r, get_worktree_base(r) has r's
\* parent directory and r's name followed by "-worktrees", and is never
\* located inside r.
C9_BaseIsSiblingNeverInside ==
    pc = "based" =>
        /\ SiblingOf(worktree_base, result.path)
        /\ ~Inside(worktree_base, result.path)

\* C9 as amended: the same for every repository root r but the filesystem
\* root "/".
C9_BaseIsSiblingOutsideBelowRoot ==
    (pc = "based" /\ result.path.parts # <<>>) =>
        /\ SiblingOf(worktree_base, result.path)
        /\ ~Inside(worktree_base, result.path)

C9_Witness ==
    /\ pc = "based"
    /\ result.path = PathOf(<<"/","w","/","m","y",".","r","e","p","o","_","v","2","-","x">>)
    /\ worktree_base =
        PathOf(<<"/","w","/","m","y",".","r","e","p","o","_","v","2","-","x">>
               \o worktrees_suffix)

(***************************************************************************)
(* The worktree commands: cli.py, worktree.py, linear.py, tmux.py and      *)
(* tmux_launcher.py.  A command is run as one step: it is handed its       *)
(* arguments and the answers of its environment, issues its subprocesses   *)
(* in order against git's and tmux's state, and is entered in history with *)
(* every subprocess it started, everything it wrote to standard output and *)
(* the way it ended.                                                       *)
(***************************************************************************)
claude_wt_prefix == <<"c","l","a","u","d","e","-","w","t","-">>

refs_heads == <<"r","e","f","s","/","h","e","a","d","s","/">>

external_marker == <<"-","w","o","r","k","t","r","e","e","s","/","c","l","a","u","d","e","-","w","t","-">>

wt_prefix == <<"w","t","-">>

main == <<"m","a","i","n">>

newline == <<"\n">>

\* "needle in s" for two str
Contains(s, needle) ==
    \E i \in 1..(Len(s) - Len(needle) + 1) : SubSeq(s, i, i + Len(needle) - 1) = needle

\* line[from - 1:]
Rest(line, from) == SubSeq(line, from, Len(line))

\* str.replace(old, new) for any non-empty old
RECURSIVE Replace(_, _, _)
Replace(s, old, new) ==
    IF s = <<>> THEN <<>>
    ELSE IF StartsWith(s, old)
         THEN new \o Replace(SubSeq(s, Len(old) + 1, Len(s)), old, new)
         ELSE <<Head(s)>> \o Replace(Tail(s), old, new)

\* datetime.now().strftime("%Y%m%d-%H%M%S") at the t-th second of the model
strftime(t) ==
    <<"2","0","2","5","0","1","0","1","-","1","2","0","0","0">> \o <<<<"0","1","2","3","4","5","6","7","8","9">>[t + 1]>>

\* the members of a finite set one after the other, in an order of no meaning
RECURSIVE SetToSeq(_)
SetToSeq(S) ==
    IF S = {} THEN <<>>
    ELSE LET x == CHOOSE y \in S : TRUE IN <<x>> \o SetToSeq(S \ {x})

\* subprocess.run([...]): the program, what it is asked to do and two operands
Git(verb, a, b) == [tool |-> "git", verb |-> verb, a |-> a, b |-> b]

Tmux(verb, a, b) == [tool |-> "tmux", verb |-> verb, a |-> a, b |-> b]

\* a zenity dialog: answer is what the user chose or typed, None when the
\* user closed it
Zenity(dialog, answer) ==
    [tool |-> "zenity", verb |-> dialog,
     a |-> IF answer = None THEN <<>> ELSE answer[1] \o newline,
     b |-> IF answer = None THEN <<"c","a","n","c","e","l","l","e","d">> ELSE <<>>]

\* the picker: answer is the line the user chose, None when the user left
Fzf(prompt, answer) ==
    [tool |-> "fzf", verb |-> prompt,
     a |-> IF answer = None THEN <<>> ELSE answer[1] \o newline,
     b |-> IF answer = None THEN <<"c","a","n","c","e","l","l","e","d">> ELSE <<>>]

Claude(wd, query) == [tool |-> "claude", verb |-> "run", a |-> wd, b |-> query]

\* a step of a command: a subprocess (check: a failure raises CalledProcessError)
Run(cmd, check) ==
    [kind |-> "run", cmd |-> cmd, check |-> check, ok_steps |-> <<>>, failed_steps |-> <<>>]

\* a step of a command: a subprocess whose exit status (its returncode, or a
\* CalledProcessError caught around this one call) decides what follows
Branch(cmd, ok_steps, failed_steps) ==
    [kind |-> "run", cmd |-> cmd, check |-> FALSE,
     ok_steps |-> ok_steps, failed_steps |-> failed_steps]

\* a step of a command: something written to standard output
Say(by, template, arg) ==
    [kind |-> "say", say |-> [by |-> by, template |-> template, arg |-> arg]]

\* git's and tmux's state, as the subprocesses see it
Env == [dirs |-> dirs, heads |-> heads, worktrees |-> worktrees, sessions |-> sessions]

CheckedOut(env) == {main} \cup {env.worktrees[i].branch : i \in DOMAIN env.worktrees}

Registered(env) == {env.worktrees[i].path : i \in DOMAIN env.worktrees}

\* whether the subprocess can exit with status 0 in this state
CanSucceed(cmd, env) ==
    IF cmd.tool = "git" THEN
        CASE cmd.verb = "show-ref --verify" -> cmd.a \in env.heads
          [] cmd.verb \in {"switch", "checkout"} -> cmd.a \in env.heads
          [] cmd.verb = "branch" -> cmd.a \notin env.heads
          [] cmd.verb = "branch -D" -> cmd.a \in env.heads /\ cmd.a \notin CheckedOut(env)
          [] cmd.verb = "worktree add" ->
                /\ cmd.b \in env.heads
                /\ cmd.b \notin CheckedOut(env)
                /\ PathOf(cmd.a) \notin env.dirs
          [] cmd.verb = "worktree remove --force" -> PathOf(cmd.a) \in Registered(env)
          [] cmd.verb = "fetch origin" -> cmd.b = <<>>
          [] cmd.verb = "fetch origin pull" -> cmd.b \notin CheckedOut(env)
          [] OTHER -> TRUE
    ELSE IF cmd.tool \in {"fzf", "zenity", "gh"} THEN cmd.b = <<>>
    ELSE IF cmd.tool = "tmux" THEN
        CASE cmd.verb = "has-session" -> cmd.a \in env.sessions
          [] cmd.verb = "new-session" -> cmd.a \notin env.sessions
          [] cmd.verb = "switch-client" -> cmd.a \in env.sessions
          [] OTHER -> TRUE
    ELSE TRUE

KeepWorktree(env, path) ==
    SelectSeq(env.worktrees, LAMBDA w : w.path # path)

\* what the subprocess changes when it exits with status 0
Effect(cmd, env) ==
    IF cmd.tool = "git" THEN
        CASE cmd.verb = "branch" -> [env EXCEPT !.heads = @ \cup {cmd.a}]
          [] cmd.verb = "branch -D" -> [env EXCEPT !.heads = @ \ {cmd.a}]
          [] cmd.verb = "fetch origin pull" -> [env EXCEPT !.heads = @ \cup {cmd.b}]
          [] cmd.verb = "worktree add" ->
                [env EXCEPT !.dirs = @ \cup {PathOf(cmd.a)},
                            !.worktrees = Append(@, [path |-> PathOf(cmd.a), branch |-> cmd.b])]
          [] cmd.verb = "worktree remove --force" ->
                [env EXCEPT !.dirs = @ \ {PathOf(cmd.a)},
                            !.worktrees = KeepWorktree(env, PathOf(cmd.a))]
          [] cmd.verb = "worktree prune" ->
                [env EXCEPT !.worktrees = SelectSeq(@, LAMBDA w : w.path \in env.dirs)]
          [] OTHER -> env
    ELSE IF cmd.tool = "tmux" /\ cmd.verb = "new-session"
    THEN [env EXCEPT !.sessions = @ \cup {cmd.a}]
    ELSE env

\* a step of a command: raise SystemExit(code), sys.exit(code) or return
Exit(how) == [kind |-> "exit", how |-> how]

\* a step of a command: a value appended to the list the command returns
Yield(value) == [kind |-> "yield", value |-> value]

\* a step of a command: something done to the file system without a
\* subprocess (what: "mkdir", "write" or "copy")
Fs(what, path, content) ==
    [kind |-> "fs", fs |-> [what |-> what, path |-> path, content |-> content]]

When(cond, steps) == IF cond THEN steps ELSE <<>>

\* a command under way: the state, what was issued and written, what was
\* done to the file system, the numbers of the subprocesses that exited
\* non-zero, whether one run with check=True has failed, and how the command
\* ended
Started(env) ==
    [env |-> env, cmds |-> <<>>, out |-> <<>>, ret |-> <<>>, fs |-> <<>>, failed |-> {},
     raised |-> FALSE, ended |-> "running"]

\* the steps run in order until one raises or exits; fault holds the numbers
\* of the subprocesses of the command that fail whatever the state
RECURSIVE Exec(_, _, _)
Exec(steps, fault, r) ==
    IF steps = <<>> \/ r.raised \/ r.ended # "running" THEN r
    ELSE LET st == Head(steps)
         IN  IF st.kind = "say"
             THEN Exec(Tail(steps), fault, [r EXCEPT !.out = Append(@, st.say)])
             ELSE IF st.kind = "exit"
             THEN [r EXCEPT !.ended = st.how]
             ELSE IF st.kind = "yield"
             THEN Exec(Tail(steps), fault, [r EXCEPT !.ret = Append(@, st.value)])
             ELSE IF st.kind = "fs"
             THEN Exec(Tail(steps), fault, [r EXCEPT !.fs = Append(@, st.fs)])
             ELSE LET ok == Len(r.cmds) + 1 \notin fault /\ CanSucceed(st.cmd, r.env)
                  IN  Exec((IF ok THEN st.ok_steps ELSE st.failed_steps) \o Tail(steps),
                           fault,
                           [r EXCEPT !.cmds = Append(@, st.cmd),
                                     !.env = (IF ok THEN Effect(st.cmd, @) ELSE @),
                                     !.failed = (IF ok THEN @ ELSE @ \cup {Len(r.cmds) + 1}),
                                     !.raised = ~ok /\ st.check])

\* an except clause: the steps of the handler run once the exception is caught
Except(r, fault, steps) ==
    IF r.raised THEN Exec(steps, fault, [r EXCEPT !.raised = FALSE]) ELSE r

\* the command is over: an exception nobody caught leaves the process
Ended(r) ==
    [r EXCEPT !.ended = IF r.raised THEN "CalledProcessError"
                        ELSE IF @ = "running" THEN "return" ELSE @]

(***************************************************************************)
(* core.py and cli.py: what the commands write below the worktree.  The    *)
(* text of a file is a template; content holds what the template is filled *)
(* with                                                                    *)
(***************************************************************************)
claude_md == <<"C","L","A","U","D","E",".","m","d">>

\* worktree_base.mkdir(parents=True, exist_ok=True)
mkdir(path) == Fs("mkdir", path, <<>>)

create_worktree_context(wt_path, issue_id, branch_name, repo_root) ==
    Fs("write", PathJoin(wt_path, PathOf(claude_md)),
       [template |-> "core.py", wt_path |-> PathStr(wt_path), issue_id |-> issue_id,
        branch_name |-> branch_name, repo_root |-> PathStr(repo_root)])

\* cli.py has a template of its own
cli_create_worktree_context(wt_path, issue_id, branch_name, repo_root) ==
    Fs("write", PathJoin(wt_path, PathOf(claude_md)),
       [template |-> "cli.py", wt_path |-> PathStr(wt_path), issue_id |-> issue_id,
        branch_name |-> branch_name, repo_root |-> PathStr(repo_root)])

\* .envrc, .mcp.json, CLAUDE.md and .claude of the repository, where they
\* exist, copied over what the worktree has
copy_gitignored_files(repo_root, wt_path) == Fs("copy", wt_path, PathStr(repo_root))

\* the post-checkout hook, in the directory the worktree's .git file names
install_branch_protection_hook(repo_root, wt_path, branch_name) ==
    Fs("write",
       PathJoin(repo_root, PathOf(<<".","g","i","t","/","w","o","r","k","t","r","e","e","s","/">> \o PathName(wt_path) \o <<"/","h","o","o","k","s","/","p","o","s","t","-","c","h","e","c","k","o","u","t">>)),
       [template |-> "post-checkout", branch_name |-> branch_name])

(***************************************************************************)
(* tmux.py                                                                 *)
(***************************************************************************)
\* which: whether shutil.which("claude") finds the executable
launch_claude(which, repo_root, wt_path, query) ==
    IF ~which
    THEN <<Say("console", "Error: 'claude' command not found in PATH", <<>>),
           Say("console", "Please install Claude Code CLI first", <<>>),
           Exit("SystemExit(1)")>>
    ELSE <<Run(Claude(PathStr(wt_path), query), FALSE)>>

create_tmux_session(r, fault, in_tmux, which, session_name, wt_path, repo_root, query) ==
    IF r.raised \/ r.ended # "running" THEN r
    ELSE IF ~in_tmux
    THEN Exec(<<Say("console", "Worktree at: {}", PathStr(wt_path)),
                Say("console", "Not running in tmux - launching Claude directly", <<>>)>>
              \o launch_claude(which, repo_root, wt_path, query), fault, r)
    ELSE Except(
           Exec(<<Branch(Tmux("has-session", session_name, <<>>), <<>>,
                         <<Run(Tmux("new-session", session_name, PathStr(wt_path)), TRUE),
                           Say("console", "Created tmux session: {}", session_name),
                           Say("console", "Session working directory: {}", PathStr(wt_path))>>),
                  Run(Tmux("switch-client", session_name, <<>>), FALSE),
                  Say("console", "Switched to tmux session: {}", session_name),
                  Run(Tmux("send-keys", session_name, query), TRUE),
                  Say("console", "Launched Claude in session", <<>>)>>,
                fault, r),
           fault,
           <<Say("console", "Warning: Could not create/switch to tmux session: {}", <<>>),
             Say("console", "Worktree at: {}", PathStr(wt_path)),
             Say("console", "Launching Claude directly...", <<>>)>>
           \o launch_claude(which, repo_root, wt_path, query))

(***************************************************************************)
(* cli.py: new.  a holds the arguments of the call; w holds what the       *)
(* process finds around it: w.ignored (check_gitignore's answer) and       *)
(* w.in_tmux (whether TMUX is set); top is what git prints as toplevel     *)
(***************************************************************************)
show_toplevel == Git("rev-parse --show-toplevel", <<>>, <<>>)

cli_new(a, w, top, now, fault, env) ==
    LET repo_root == git_stdout_to_path(PathStr(top) \o newline)
        source_branch == IF a.branch # <<>> THEN a.branch ELSE Strip(main \o newline)
        suffix == IF a.name # <<>> THEN a.name ELSE strftime(now)
        branch_name == claude_wt_prefix \o suffix
        wt_path == PathJoin(get_worktree_base(repo_root), PathOf(branch_name))
        session_name == wt_prefix \o suffix
        switch == Run(Git("switch", source_branch, <<>>), TRUE)
        claude == Run(Claude(PathStr(wt_path), a.query), FALSE)
        created ==
            Exec(<<Run(show_toplevel, TRUE)>>
                 \o When(~w.ignored,
                         <<Run(Git("config --global core.excludesfile", <<>>, <<>>), FALSE),
                           Say("console", "Setup Required", <<>>),
                           Exit("SystemExit(1)")>>)
                 \o When(a.branch = <<>>, <<Run(Git("branch --show-current", <<>>, <<>>), TRUE)>>)
                 \o (IF ~a.no_pull
                     THEN <<Run(Git("fetch origin", <<>>, <<>>), TRUE),
                            switch,
                            Run(Git("pull --ff-only", <<>>, <<>>), TRUE)>>
                     ELSE <<switch>>)
                 \o <<Branch(Git("show-ref --verify", branch_name, <<>>), <<>>,
                             <<Run(Git("branch", branch_name, source_branch), TRUE)>>)>>
                 \o <<mkdir(get_worktree_base(repo_root))>>
                 \o When(wt_path \notin env.dirs,
                         <<Run(Git("worktree add", PathStr(wt_path), branch_name), TRUE)>>)
                 \o <<cli_create_worktree_context(wt_path, branch_name, branch_name, repo_root)>>
                 \o (IF a.print_path
                     THEN <<Say("print", "{}", PathStr(wt_path)), Exit("return")>>
                     ELSE <<Say("console", "Session Created", source_branch)>>),
                 fault, Started(env))
        launched ==
            IF created.raised \/ created.ended # "running" THEN created
            ELSE IF ~w.in_tmux THEN Exec(<<claude>>, fault, created)
            ELSE Except(
                   Exec(<<Branch(Tmux("has-session", session_name, <<>>), <<>>,
                                 <<Run(Tmux("new-session", session_name, PathStr(wt_path)), TRUE),
                                   Say("console", "Created tmux session: {}", session_name),
                                   Say("console", "Session working directory: {}",
                                       PathStr(wt_path)),
                                   Run(Tmux("send-keys", session_name, a.query), FALSE)>>),
                          Run(Tmux("switch-client", session_name, <<>>), FALSE),
                          Say("console", "Switched to tmux session: {}", session_name)>>,
                        fault, created),
                   fault,
                   <<Say("console", "Warning: Could not create/switch to tmux session: {}",
                         <<>>),
                     claude>>)
    IN  Ended(launched)

(***************************************************************************)
(* worktree.py: create_worktree, create_new_worktree, materialize_branch.  *)
(* w.git_crypt: whether .git/git-crypt exists; w.which: whether            *)
(* shutil.which finds claude                                               *)
(***************************************************************************)
create_worktree(git_crypt, repo_root, branch_name, wt_path) ==
    IF git_crypt
    THEN <<Say("console", "Detected git-crypt, creating worktree without filters...", <<>>),
           Run(Git("worktree add", PathStr(wt_path), branch_name), TRUE),
           Say("console", "Setting up git-crypt keys in worktree...", <<>>),
           Say("console", "Git-crypt keys linked", <<>>),
           Say("console", "Decrypting files in worktree...", <<>>),
           Branch(Git("reset --hard HEAD", PathStr(wt_path), <<>>),
                  <<Say("console", "Files decrypted", <<>>)>>,
                  <<Say("console", "Warning: Could not decrypt files: {}", <<>>)>>)>>
    ELSE <<Run(Git("worktree add", PathStr(wt_path), branch_name), TRUE)>>

create_new_worktree(a, w, top, now, fault, env) ==
    LET repo_root == git_stdout_to_path(PathStr(top) \o newline)
        source_branch == IF a.branch # <<>> THEN a.branch ELSE Strip(main \o newline)
        is_remote_ref == "/" \in Range(source_branch)
        suffix == IF a.name # <<>> THEN a.name ELSE strftime(now)
        branch_name == claude_wt_prefix \o suffix
        wt_name == PathName(repo_root) \o <<"-">> \o ReplaceChar(branch_name, "/", <<"-">>)
        wt_path == PathJoin(get_worktree_base(repo_root), PathOf(wt_name))
        session_name == wt_prefix \o suffix
        switch == Run(Git("switch", source_branch, <<>>), TRUE)
        created ==
            Exec(<<Run(show_toplevel, TRUE)>>
                 \o When(a.branch = <<>>, <<Run(Git("branch --show-current", <<>>, <<>>), TRUE)>>)
                 \o (IF a.pull
                     THEN <<Say("console", "Fetching latest changes...", <<>>),
                            Run(Git("fetch origin", <<>>, <<>>), TRUE)>>
                          \o When(~is_remote_ref,
                                  <<switch, Run(Git("pull --ff-only", <<>>, <<>>), TRUE)>>)
                          \o <<Say("console", "Synced with origin", <<>>)>>
                     ELSE When(~is_remote_ref, <<switch>>))
                 \o <<Branch(Git("show-ref --verify", branch_name, <<>>), <<>>,
                             <<Run(Git("branch", branch_name, source_branch), TRUE)>>)>>
                 \o <<mkdir(get_worktree_base(repo_root))>>
                 \o When(wt_path \notin env.dirs,
                         create_worktree(w.git_crypt, repo_root, branch_name, wt_path))
                 \o <<create_worktree_context(wt_path, branch_name, branch_name, repo_root),
                      copy_gitignored_files(repo_root, wt_path),
                      install_branch_protection_hook(repo_root, wt_path, branch_name)>>
                 \o (IF a.print_path
                     THEN <<Say("print", "{}", PathStr(wt_path)), Exit("return")>>
                     ELSE <<Say("console", "Session Created", source_branch)>>),
                 fault, Started(env))
    IN  Ended(create_tmux_session(created, fault, w.in_tmux, w.which,
                                  session_name, wt_path, repo_root, a.query))

\* the worktree's directory name: the repository's name, and the branch with
\* every "/" made "-"
materialize_wt_name(repo_root, branch_name) ==
    LET safe_branch == ReplaceChar(branch_name, "/", <<"-">>)
    IN  PathName(repo_root) \o <<"-">> \o safe_branch

\* the check goes on when the branch is missing
verify_branch_and_go_on(branch_name) ==
    Branch(Git("show-ref --verify", branch_name, <<>>), <<>>,
           <<Say("console", "Error: Branch '{}' does not exist locally", branch_name)>>)

\* "Verify the branch exists locally"
verify_branch(branch_name) ==
    Branch(Git("show-ref --verify", branch_name, <<>>), <<>>,
           <<Say("console", "Error: Branch '{}' does not exist locally", branch_name),
             Exit("SystemExit(1)")>>)

materialize_branch(a, w, top, fault, env) ==
    LET repo_root == git_stdout_to_path(PathStr(top) \o newline)
        wt_name == materialize_wt_name(repo_root, a.branch_name)
        wt_path == PathJoin(get_worktree_base(repo_root), PathOf(wt_name))
        session_name == wt_prefix \o wt_name
        created ==
            Exec(<<Branch(show_toplevel, <<>>,
                          <<Say("console", "Error: Not in a git repository", <<>>),
                            Exit("SystemExit(1)")>>),
                   verify_branch(a.branch_name),
                   mkdir(get_worktree_base(repo_root))>>
                 \o (IF wt_path \in env.dirs
                     THEN <<Say("console", "Worktree already exists at {}", PathStr(wt_path)),
                            Say("console", "Resuming existing session...", <<>>)>>
                     ELSE <<Branch(Git("worktree add", PathStr(wt_path), a.branch_name),
                                   <<Say("console", "Created worktree at {}", PathStr(wt_path))>>,
                                   <<Say("console", "Error creating worktree: {}", <<>>),
                                     Exit("SystemExit(1)")>>),
                            create_worktree_context(wt_path, a.branch_name, a.branch_name,
                                                    repo_root),
                            copy_gitignored_files(repo_root, wt_path),
                            install_branch_protection_hook(repo_root, wt_path, a.branch_name)>>),
                 fault, Started(env))
        launched == create_tmux_session(created, fault, w.in_tmux, w.which,
                                        session_name, wt_path, repo_root, <<>>)
    IN  Ended(Exec(<<Say("console", "Switched to session: {}", session_name)>>,
                   fault, launched))

\* Path.home() / "dev" / "claude-wt-worktrees"
central_worktrees(home) == PathJoin(home, PathOf(<<"d","e","v","/","c","l","a","u","d","e","-","w","t","-","w","o","r","k","t","r","e","e","s">>))

unknown == <<"u","n","k","n","o","w","n">>

\* the dict list_all_worktrees makes of one directory, from git's two answers
\* (git_dir: the repository's .git; branch: the branch checked out) or without
worktree_entry(wt_path, git_dir, branch) ==
    [path |-> PathStr(wt_path),
     repo |-> PathName(PathParent(PathOf(Strip(git_dir \o newline)))),
     session |-> Replace(Replace(Strip(branch \o newline), claude_wt_prefix, <<>>),
                         <<"/">>, <<"-">>)]

fallback_entry(wt_path) ==
    [path |-> PathStr(wt_path), repo |-> unknown, session |-> PathName(wt_path)]

RECURSIVE scan_worktrees(_, _)
scan_worktrees(found, top) ==
    IF found = <<>> THEN <<>>
    ELSE LET wt == Head(found)
             git_dir == PathStr(PathJoin(top, PathOf(<<".","g","i","t">>)))
         IN  <<Branch(Git("rev-parse --git-common-dir", PathStr(wt.path), <<>>),
                      <<Branch(Git("rev-parse --abbrev-ref HEAD", PathStr(wt.path), <<>>),
                               <<Yield(worktree_entry(wt.path, git_dir, wt.branch))>>,
                               <<Yield(fallback_entry(wt.path))>>)>>,
                      <<Yield(fallback_entry(wt.path))>>)>>
             \o scan_worktrees(Tail(found), top)

\* the worktrees whose directory exists under the scanned directory, in the
\* order of git's registry
list_all_worktrees(home, top, fault, r) ==
    LET inside(wt) == /\ PathParent(wt.path) = central_worktrees(home)
                      /\ wt.path \in r.env.dirs
    IN  Exec(scan_worktrees(SelectSeq(r.env.worktrees, inside), top), fault, r)

\* f"{s:<n}"
LJust(s, n) == s \o [i \in 1..(n - Len(s)) |-> " "]

\* str.split(): the runs of characters that are not whitespace
RECURSIVE Split(_)
Split(s) ==
    IF \A i \in DOMAIN s : IsSpace(s[i]) THEN <<>>
    ELSE LET from == CHOOSE i \in DOMAIN s :
                        ~IsSpace(s[i]) /\ \A j \in 1..(i - 1) : IsSpace(s[j])
             spaces == {i \in from..Len(s) : IsSpace(s[i])}
             to == IF spaces = {} THEN Len(s) + 1
                   ELSE CHOOSE i \in spaces : \A j \in spaces : i <= j
         IN  <<SubSeq(s, from, to - 1)>> \o Split(SubSeq(s, to, Len(s)))

\* the line select_worktree_fzf shows for a worktree
fzf_line(wt, env) ==
    (IF PathOf(wt.path) \in env.dirs THEN <<"[","O","K","]">> ELSE <<"[","X","]">>)
    \o <<" ">> \o LJust(wt.repo, 15) \o <<" ">> \o LJust(wt.session, 35)
    \o <<" ">> \o wt.path

\* the dict select_worktree_fzf makes of fzf's stdout, or None
parse_selection(stdout) ==
    LET parts == Split(Strip(stdout))
    IN  IF Len(parts) < 4 THEN None
        ELSE Some([path |-> Strip(parts[4]), repo |-> Strip(parts[2]),
                   session |-> Strip(parts[3])])

\* pick: 0 when the user leaves the picker, else the number of the listed
\* worktree whose line the user chooses
FzfAnswer(listing, pick, env) ==
    IF pick \in DOMAIN listing THEN Some(fzf_line(listing[pick], env)) ELSE None

\* what select_worktree_fzf returns once fzf has run
select_worktree_fzf(listing, pick, env) ==
    IF listing = <<>> \/ FzfAnswer(listing, pick, env) = None THEN None
    ELSE parse_selection(FzfAnswer(listing, pick, env)[1] \o newline)

\* wt_path.parent.parent / wt_path.parent.name.replace("-worktrees", "")
repo_root_of(wt_path) ==
    PathJoin(PathParent(PathParent(wt_path)),
             PathOf(Replace(PathName(PathParent(wt_path)), worktrees_suffix, <<>>)))

switch_worktree(a, w, home, top, fault, env) ==
    LET listed == list_all_worktrees(home, top, fault, Started(env))
        listing == listed.ret
        selected_wt == select_worktree_fzf(listing, w.pick, env)
        wt_path == PathOf(selected_wt[1].path)
        suffix == selected_wt[1].session
        chosen ==
            Exec(IF listing = <<>>
                 THEN <<Say("console", "No claude-wt worktrees found.", <<>>),
                        Exit("SystemExit(1)")>>
                 ELSE <<Branch(Fzf("Select worktree to switch to:",
                                   FzfAnswer(listing, w.pick, env)),
                               IF selected_wt = None
                               THEN <<Say("console", "No worktree selected", <<>>),
                                      Exit("SystemExit(1)")>>
                               ELSE IF wt_path \notin env.dirs
                               THEN <<Say("console", "Error: Worktree does not exist: {}",
                                          PathStr(wt_path)),
                                      Exit("SystemExit(1)")>>
                               ELSE IF a.continue_session
                               THEN <<Say("console", "Switching to session (resuming): {}",
                                          suffix)>>
                               ELSE <<Say("console", "Switching to session: {}", suffix)>>,
                               <<Say("console", "No worktree selected", <<>>),
                                 Exit("SystemExit(1)")>>)>>,
                 fault, [listed EXCEPT !.ret = <<>>])
    IN  Ended(IF selected_wt = None THEN chosen
              ELSE create_tmux_session(chosen, fault, w.in_tmux, w.which,
                                       wt_prefix \o suffix, wt_path,
                                       repo_root_of(wt_path), <<>>))

(***************************************************************************)
(* clean: cli.py's clean and worktree.py's clean_worktrees                 *)
(***************************************************************************)
\* one worktree of git worktree list --porcelain; a detached one has no branch
porcelain_entry(path, branch) ==
    <<<<"w","o","r","k","t","r","e","e"," ">> \o PathStr(path), <<"H","E","A","D"," ","0","a","1","b","2","c">>>>
    \o (IF branch = <<>> THEN <<<<"d","e","t","a","c","h","e","d">>>> ELSE <<<<"b","r","a","n","c","h"," ">> \o refs_heads \o branch>>)
    \o <<<<>>>>

RECURSIVE porcelain_lines(_)
porcelain_lines(registry) ==
    IF registry = <<>> THEN <<>>
    ELSE porcelain_entry(Head(registry).path, Head(registry).branch)
         \o porcelain_lines(Tail(registry))

RECURSIVE JoinLines(_)
JoinLines(lines) ==
    IF lines = <<>> THEN <<>> ELSE Head(lines) \o newline \o JoinLines(Tail(lines))

\* stdout of git worktree list --porcelain: the checkout, then the registry
porcelain(top, env) ==
    JoinLines(porcelain_entry(top, main) \o porcelain_lines(env.worktrees))

no_worktree == [path |-> None, branch |-> None]

\* the loop over result.stdout.split("\n") that collects the worktree dicts
RECURSIVE parse_worktrees(_, _)
parse_worktrees(lines, current_wt) ==
    IF lines = <<>> THEN (IF current_wt # no_worktree THEN <<current_wt>> ELSE <<>>)
    ELSE IF StartsWith(Head(lines), <<"w","o","r","k","t","r","e","e"," ">>)
    THEN (IF current_wt # no_worktree THEN <<current_wt>> ELSE <<>>)
         \o parse_worktrees(Tail(lines),
                            [path |-> Some(SubSeq(Head(lines), 10, Len(Head(lines)))),
                             branch |-> None])
    ELSE IF StartsWith(Head(lines), <<"b","r","a","n","c","h"," ">>)
    THEN parse_worktrees(Tail(lines),
                         [current_wt EXCEPT
                              !.branch = Some(SubSeq(Head(lines), 8, Len(Head(lines))))])
    ELSE parse_worktrees(Tail(lines), current_wt)

\* dict.get(key, "")
GetStr(x) == IF x = None THEN <<>> ELSE x[1]

\* core.py, and the same test inline in cli.py's clean
is_claude_wt_worktree(wt) ==
    \/ StartsWith(GetStr(wt.branch), claude_wt_prefix)
    \/ Contains(GetStr(wt.path), external_marker)

OrElse(x, y) == IF x # <<>> THEN x ELSE y

\* a loop that the first failing removal ends
RECURSIVE remove_worktrees_abort_on_failure(_)
remove_worktrees_abort_on_failure(found) ==
    IF found = <<>> THEN <<>>
    ELSE LET wt == Head(found)
             shown == OrElse(GetStr(wt.branch), GetStr(wt.path))
         IN  IF is_claude_wt_worktree(wt)
             THEN <<Branch(Git("worktree remove --force", GetStr(wt.path), <<>>),
                           <<Say("console", "Removed worktree: {}", shown)>>
                           \o remove_worktrees_abort_on_failure(Tail(found)),
                           <<Say("console", "Failed to remove worktree: {}", shown),
                             Run(Git("worktree prune", <<>>, <<>>), FALSE)>>)>>
             ELSE remove_worktrees_abort_on_failure(Tail(found))

\* the worktrees removed one by one; a removal that fails is reported, the
\* registry is pruned, and the loop carries on
RECURSIVE remove_worktrees(_)
remove_worktrees(found) ==
    IF found = <<>> THEN <<>>
    ELSE LET wt == Head(found)
             shown == OrElse(GetStr(wt.branch), GetStr(wt.path))
         IN  When(is_claude_wt_worktree(wt),
                  <<Branch(Git("worktree remove --force", GetStr(wt.path), <<>>),
                           <<Say("console", "Removed worktree: {}", shown)>>,
                           <<Say("console", "Failed to remove worktree: {}", shown),
                             Run(Git("worktree prune", <<>>, <<>>), FALSE)>>)>>)
             \o remove_worktrees(Tail(found))

\* a line of git branch --list for each claude-wt-* branch, "+ " before one
\* that a linked worktree has checked out
branch_list(env) ==
    {(IF b \in CheckedOut(env) THEN <<"+"," ">> ELSE <<" "," ">>) \o b :
        b \in {h \in env.heads : StartsWith(h, claude_wt_prefix)}}

\* str.lstrip(chars)
RECURSIVE LStripChars(_, _)
LStripChars(s, chars) ==
    IF s # <<>> /\ Head(s) \in chars THEN LStripChars(Tail(s), chars) ELSE s

listed_branch(line) == LStripChars(LStripChars(Strip(line), {"*", " "}), {"+", " "})

RECURSIVE delete_branches(_)
delete_branches(lines) ==
    IF lines = {} THEN <<>>
    ELSE LET line == CHOOSE l \in lines : \A m \in lines : Len(l) <= Len(m)
             branch == listed_branch(line)
         IN  When(Strip(line) # <<>> /\ branch # <<>>,
                  <<Branch(Git("branch -D", branch, <<>>),
                           <<Say("console", "Deleted branch {}", branch)>>,
                           <<Say("console", "Failed to delete branch {}", branch)>>)>>)
             \o delete_branches(lines \ {line})

\* clean --all, below the repository root
clean_all(top, env) ==
    <<Say("console", "Removing claude-wt worktrees...", <<>>),
      Branch(Git("worktree list --porcelain", <<>>, <<>>),
             remove_worktrees(parse_worktrees(SplitOn(porcelain(top, env), "\n"),
                                              no_worktree)),
             <<Say("console", "No worktrees found", <<>>)>>),
      Say("console", "Deleting claude-wt branches...", <<>>),
      Branch(Git("branch --list", claude_wt_prefix \o <<"*">>, <<>>),
             delete_branches(branch_list(env)),
             <<Say("console", "No claude-wt-* branches found", <<>>)>>),
      Say("console", "Cleanup complete!", <<>>)>>

\* clean <name>: the worktree at wt_path, if it exists, then the branch
clean_named(wt_path, full_branch_name, env) ==
    When(wt_path \in env.dirs,
         <<Run(Git("worktree remove --force", PathStr(wt_path), <<>>), TRUE),
           Say("console", "Removed worktree: {}", PathStr(wt_path))>>)
    \o <<Branch(Git("branch -D", full_branch_name, <<>>),
                <<Say("console", "Deleted branch: {}", full_branch_name)>>,
                <<Say("console", "Branch {} not found", full_branch_name)>>)>>

both_given == "Error: Cannot specify both branch name and --all flag"

cli_clean(a, top, fault, env) ==
    LET repo_root == git_stdout_to_path(PathStr(top) \o newline)
        wt_root == PathJoin(repo_root, PathOf(<<".","c","l","a","u","d","e","-","w","t","/","w","o","r","k","t","r","e","e","s">>))
        full_branch_name == claude_wt_prefix \o a.branch_name
    IN  Ended(Except(
            Exec(IF a.branch_name = <<>> /\ ~a.all
                 THEN <<Say("console",
                            "Error: Must specify either a branch name or --all flag", <<>>),
                        Exit("SystemExit(1)")>>
                 ELSE IF a.branch_name # <<>> /\ a.all
                 THEN <<Say("console", both_given, <<>>), Exit("SystemExit(1)")>>
                 ELSE <<Run(show_toplevel, TRUE)>>
                      \o (IF a.branch_name # <<>>
                          THEN clean_named(PathJoin(wt_root, PathOf(full_branch_name)),
                                           full_branch_name, env)
                          ELSE clean_all(repo_root, env)),
                 fault, Started(env)),
            fault,
            <<Say("console", "Error: {}", <<>>), Exit("SystemExit(1)")>>))

\* a picker that was left deletes the first worktree listed
delete_first_when_none(listing, selected_wt, env) ==
    LET chosen == IF selected_wt = None THEN Some(listing[1]) ELSE selected_wt
        wt_path == PathOf(chosen[1].path)
        branch_name == claude_wt_prefix \o chosen[1].session
    IN  <<Run(Git("worktree remove --force", PathStr(wt_path), <<>>), TRUE),
          Branch(Git("branch -D", branch_name, <<>>), <<>>, <<>>),
          Exit("return")>>

\* clean_worktrees once the picker has answered: nothing selected ends the
\* command, else the worktree selected and its branch are deleted
delete_selected(listing, selected_wt, env) ==
    LET wt_path == PathOf(selected_wt[1].path)
        branch_name == claude_wt_prefix \o selected_wt[1].session
    IN  IF selected_wt = None
        THEN <<Say("console", "No worktree selected", <<>>), Exit("SystemExit(1)")>>
        ELSE IF wt_path \notin env.dirs
        THEN <<Say("console", "Error: Worktree does not exist: {}", PathStr(wt_path)),
               Exit("SystemExit(1)")>>
        ELSE <<Run(Git("worktree remove --force", PathStr(wt_path), <<>>), TRUE),
               Say("console", "Removed worktree: {}", PathStr(wt_path)),
               Branch(Git("branch -D", branch_name, <<>>),
                      <<Say("console", "Deleted branch: {}", branch_name)>>,
                      <<Say("console", "Could not delete branch (may not exist): {}",
                            branch_name)>>),
               Exit("return")>>

\* clean_worktrees without a name and without --all: the picker decides; a
\* picker that exits non-zero has selected nothing
clean_picked(w, home, top, fault, env) ==
    LET listed == list_all_worktrees(home, top, fault, Started(env))
        listing == listed.ret
    IN  Exec(IF listing = <<>>
             THEN <<Say("console", "No claude-wt worktrees found.", <<>>),
                    Exit("SystemExit(1)")>>
             ELSE <<Branch(Fzf("Select worktree to delete:", FzfAnswer(listing, w.pick, env)),
                           delete_selected(listing,
                                           select_worktree_fzf(listing, w.pick, env), env),
                           delete_selected(listing, None, env))>>,
             fault, [listed EXCEPT !.ret = <<>>])

clean_worktrees(a, w, home, top, fault, env) ==
    LET repo_root == git_stdout_to_path(PathStr(top) \o newline)
        full_branch_name == claude_wt_prefix \o a.branch_name
        wt_path == PathJoin(get_worktree_base(repo_root), PathOf(full_branch_name))
    IN  Ended(IF a.branch_name # <<>> /\ a.all
              THEN Exec(<<Say("console", both_given, <<>>), Exit("SystemExit(1)")>>,
                        fault, Started(env))
              ELSE IF a.branch_name = <<>> /\ ~a.all
              THEN clean_picked(w, home, top, fault, env)
              ELSE Exec(<<Run(show_toplevel, TRUE)>>
                        \o (IF a.branch_name # <<>>
                            THEN clean_named(wt_path, full_branch_name, env)
                            ELSE clean_all(repo_root, env)),
                        fault, Started(env)))

(***************************************************************************)
(* cli.py: resume and list                                                 *)
(***************************************************************************)
\* the record whose branch is full_branch_name: the first that a "worktree "
\* line follows, else the last of the text; None when there is none
RECURSIVE find_worktree(_, _, _)
find_worktree(lines, current_wt, full_branch_name) ==
    IF lines = <<>>
    THEN (IF current_wt.branch = Some(full_branch_name) THEN current_wt.path ELSE None)
    ELSE IF StartsWith(Head(lines), <<"w","o","r","k","t","r","e","e"," ">>)
    THEN (IF current_wt.branch = Some(full_branch_name) THEN current_wt.path
          ELSE find_worktree(Tail(lines),
                             [path |-> Some(Rest(Head(lines), 10)), branch |-> None],
                             full_branch_name))
    ELSE IF StartsWith(Head(lines), <<"b","r","a","n","c","h"," ">>)
    THEN find_worktree(Tail(lines),
                       [current_wt EXCEPT !.branch = Some(Rest(Head(lines), 8))],
                       full_branch_name)
    ELSE find_worktree(Tail(lines), current_wt, full_branch_name)

cli_resume(a, top, fault, env) ==
    LET repo_root == git_stdout_to_path(PathStr(top) \o newline)
        full_branch_name == claude_wt_prefix \o a.branch_name
        wt_path == find_worktree(SplitOn(porcelain(repo_root, env), "\n"), no_worktree,
                                 full_branch_name)
    IN  Ended(Except(
            Exec(<<Run(show_toplevel, TRUE),
                   Run(Git("worktree list --porcelain", <<>>, <<>>), TRUE)>>
                 \o (IF wt_path = None \/ PathOf(GetStr(wt_path)) \notin env.dirs
                     THEN <<Say("console", "Error: Worktree for branch '{}' not found",
                                a.branch_name),
                            Exit("SystemExit(1)")>>
                     ELSE <<Say("console", "Resuming session for branch: {}", a.branch_name),
                            Run([tool |-> "claude", verb |-> "--continue",
                                 a |-> GetStr(wt_path), b |-> PathStr(repo_root)], FALSE)>>),
                 fault, Started(env)),
            fault,
            <<Say("console", "Error: {}", <<>>), Exit("SystemExit(1)")>>))

\* the rows of the table, which is shown sorted by branch: whether the
\* directory exists, the session's name, the path
cli_list(top, fault, env) ==
    LET repo_root == git_stdout_to_path(PathStr(top) \o newline)
        parsed == parse_worktrees(SplitOn(porcelain(repo_root, env), "\n"), no_worktree)
        claude_worktrees ==
            SelectSeq(parsed, LAMBDA wt : StartsWith(GetStr(wt.branch), claude_wt_prefix))
        row(wt) == [status |-> PathOf(wt.path[1]) \in env.dirs,
                    suffix |-> Replace(GetStr(wt.branch), claude_wt_prefix, <<>>),
                    path |-> wt.path[1]]
    IN  Ended(Except(
            Exec(<<Run(show_toplevel, TRUE),
                   Run(Git("worktree list --porcelain", <<>>, <<>>), TRUE)>>
                 \o (IF claude_worktrees = <<>>
                     THEN <<Say("console", "No claude-wt worktrees found.", <<>>)>>
                     ELSE <<Say("console", "Claude-wt worktrees for {}",
                                {row(claude_worktrees[i]) : i \in DOMAIN claude_worktrees})>>),
                 fault, Started(env)),
            fault,
            <<Say("console", "Error: {}", <<>>), Exit("SystemExit(1)")>>))

(***************************************************************************)
(* tmux_launcher.py                                                        *)
(***************************************************************************)
claude_launcher == <<"/","h","o","m","e","/","d","e","c","o","d","e","r","/","d","e","v","/","d","o","t","f","i","l","e","s","/","s","c","r","i","p","t","s","/","_","_","c","l","a","u","d","e","_","w","i","t","h","_","m","o","n","i","t","o","r",".","s","h">>

kubeconfig == <<"/","h","o","m","e","/","d","e","c","o","d","e","r","/","d","e","v","/","h","o","m","e","l","a","b","/","k","u","b","e","c","o","n","f","i","g">>

claude_cmd(initial_prompt) ==
    <<"K","U","B","E","C","O","N","F","I","G","=">> \o kubeconfig \o <<" ">> \o claude_launcher \o <<" ">>
    \o <<"-","-","d","a","n","g","e","r","o","u","s","l","y","-","s","k","i","p","-","p","e","r","m","i","s","s","i","o","n","s"," ","-","-"," ","\"">> \o initial_prompt \o <<"\"">>

\* a launcher that creates the session without asking whether it exists
launch_claude_in_tmux_always_creates(session_name, worktree_path, initial_prompt) ==
    <<Run(Tmux("has-session", session_name, <<>>), FALSE),
      Run(Tmux("new-session", session_name, PathStr(worktree_path)), FALSE),
      Run(Tmux("send-keys", session_name \o <<":","w","o","r","k">>, claude_cmd(initial_prompt)), FALSE),
      Run(Tmux("switch-client", session_name, <<>>), FALSE)>>

\* no subprocess is run with check=True: none of them raises
launch_claude_in_tmux(session_name, worktree_path, initial_prompt) ==
    <<Branch(Tmux("has-session", session_name, <<>>),
             <<>>,
             <<Run(Tmux("new-session", session_name, PathStr(worktree_path)), FALSE)>>),
      Run(Tmux("send-keys", session_name \o <<":","w","o","r","k">>, claude_cmd(initial_prompt)), FALSE),
      Run(Tmux("switch-client", session_name, <<>>), FALSE)>>

(***************************************************************************)
(* linear.py: handle_linear_issue.  w.zenity: the number of the option the *)
(* user selects in the list dialog, 0 to close it; w.suffix: what the user *)
(* types in the entry dialog, None to close it                             *)
(***************************************************************************)
\* a line of git branch -a for each local branch: "* " before the one of the
\* checkout, "+ " before one that a linked worktree has checked out
branch_a(env) ==
    {(IF b = main THEN <<"*"," ">>
      ELSE IF b \in CheckedOut(env) THEN <<"+"," ">> ELSE <<" "," ">>) \o b : b \in env.heads}
    \cup {<<" "," ","r","e","m","o","t","e","s","/","o","r","i","g","i","n","/","m","a","i","n">>}

\* the branches of the issue among the lines of git branch -a
existing_branches_of(issue_prefix, lines) ==
    LET branch_of(line) == Strip(listed_branch(line))
    IN  {branch_of(line) : line \in
            {l \in lines : /\ branch_of(l) # <<>>
                           /\ ~StartsWith(branch_of(l), <<"r","e","m","o","t","e","s","/">>)
                           /\ "/" \in Range(branch_of(l))
                           /\ StartsWith(branch_of(l), issue_prefix \o <<"/">>)}}

\* the names of the directories of the issue below the worktree base
existing_worktrees_of(issue_prefix, wt_base, env) ==
    {PathName(d) : d \in {e \in env.dirs : /\ PathParent(e) = wt_base
                                           /\ StartsWith(PathName(e), issue_prefix \o <<"-">>)}}

\* the block that creates branch and worktree without looking whether they
\* are there
create_linear_worktree_unconditionally(repo_root, wt_base, branch_name, env) ==
    <<Run(Git("fetch origin", <<>>, <<>>), TRUE),
      Run(Git("checkout", main, <<>>), TRUE),
      Run(Git("pull --ff-only", <<>>, <<>>), TRUE),
      Run(Git("show-ref --verify", branch_name, <<>>), FALSE),
      Run(Git("branch", branch_name, main), FALSE),
      Run(Git("worktree add",
              PathStr(PathJoin(wt_base, PathOf(Replace(branch_name, <<"/">>, <<"-">>)))),
              branch_name), FALSE)>>

\* "if not worktree_path": main is brought up to date, the branch is created
\* if show-ref does not find it, the worktree is added if its directory is
\* not there
create_linear_worktree(repo_root, wt_base, branch_name, env) ==
    LET wt_name == Replace(branch_name, <<"/">>, <<"-">>)
        worktree_path == PathJoin(wt_base, PathOf(wt_name))
    IN  <<Run(Git("fetch origin", <<>>, <<>>), TRUE),
          Run(Git("checkout", main, <<>>), TRUE),
          Run(Git("pull --ff-only", <<>>, <<>>), TRUE),
          Branch(Git("show-ref --verify", branch_name, <<>>),
                 <<>>,
                 <<Run(Git("branch", branch_name, main), TRUE)>>)>>
        \o When(worktree_path \notin env.dirs,
                <<Run(Git("worktree add", PathStr(worktree_path), branch_name), TRUE)>>)

handle_linear_issue(a, w, top, now, fault, env) ==
    LET resolved == resolve_repo_path(IF a.repo_path # <<".">> THEN Some(a.repo_path) ELSE None,
                                      None, top)
        repo_root == IF resolved.kind = "path" THEN resolved.path
                     ELSE git_stdout_to_path(PathStr(top) \o newline)
        wt_base == get_worktree_base(repo_root)
        issue_prefix == normalize_linear_id(a.issue_id)
        existing_branches == existing_branches_of(issue_prefix, branch_a(env))
        existing_worktrees == existing_worktrees_of(issue_prefix, wt_base, env)
        options ==
            SetToSeq({<<"[","w","o","r","k","t","r","e","e"," ","e","x","i","s","t","s","]"," ">> \o wt : wt \in existing_worktrees})
            \o SetToSeq({<<"[","c","r","e","a","t","e"," ","w","o","r","k","t","r","e","e","]"," ">> \o b :
                            b \in {e \in existing_branches :
                                      Replace(e, <<"/">>, <<"-">>) \notin existing_worktrees}})
            \o <<<<"C","r","e","a","t","e"," ","n","e","w"," ","b","r","a","n","c","h">>>>
        answer == IF w.zenity \in DOMAIN options THEN Some(options[w.zenity]) ELSE None
        selection == Strip(GetStr(answer) \o newline)
        done(worktree_path, branch_name) ==
            <<create_worktree_context(worktree_path, a.issue_id, branch_name, repo_root),
              Say("print", "{}", PathStr(worktree_path))>>
            \o When(a.session_name # None /\ a.session_name # Some(<<>>),
                    launch_claude_in_tmux(a.session_name[1], worktree_path,
                                          <<"/","o","p","s","-","l","i","n","e","a","r","-","i","s","s","u","e"," ">> \o a.issue_id))
            \o <<Exit("SystemExit(0)")>>
        created(branch_name) ==
            create_linear_worktree(repo_root, wt_base, branch_name, env)
            \o done(PathJoin(wt_base, PathOf(Replace(branch_name, <<"/">>, <<"-">>))), branch_name)
        named ==
            IF a.interactive
            THEN <<Branch(Zenity("--entry", w.suffix),
                          IF Strip(GetStr(w.suffix) \o newline) = <<>>
                          THEN <<Exit("SystemExit(1)")>>
                          ELSE created(issue_prefix \o <<"/">> \o Strip(GetStr(w.suffix) \o newline)),
                          <<Exit("SystemExit(1)")>>)>>
            ELSE created(issue_prefix \o <<"/">> \o strftime(now))
        selected ==
            IF StartsWith(selection, <<"[","w","o","r","k","t","r","e","e"," ","e","x","i","s","t","s","]">>)
            THEN LET wt_name == Strip(Replace(selection, <<"[","w","o","r","k","t","r","e","e"," ","e","x","i","s","t","s","]"," ">>, <<>>))
                 IN  done(PathJoin(wt_base, PathOf(wt_name)),
                          issue_prefix \o <<"/">>
                          \o Replace(wt_name, issue_prefix \o <<"-">>, <<>>))
            ELSE IF StartsWith(selection, <<"[","c","r","e","a","t","e"," ","w","o","r","k","t","r","e","e","]">>)
            THEN created(Strip(Replace(selection, <<"[","c","r","e","a","t","e"," ","w","o","r","k","t","r","e","e","]"," ">>, <<>>)))
            ELSE IF selection = <<"C","r","e","a","t","e"," ","n","e","w"," ","b","r","a","n","c","h">> THEN named
            ELSE <<Exit("SystemExit(1)")>>
    IN  Ended(Except(
            Exec(When(resolved.kind # "path",
                      <<Branch(show_toplevel, <<>>,
                               <<Say("stderr", "Unexpected error: {}", <<>>),
                                 Exit("SystemExit(1)")>>)>>)
                 \o <<mkdir(wt_base), Run(Git("branch -a", <<>>, <<>>), TRUE)>>
                 \o (IF a.interactive /\ (existing_branches # {} \/ existing_worktrees # {})
                     THEN <<Branch(Zenity("--list", answer), selected,
                                   <<Exit("SystemExit(1)")>>)>>
                     ELSE named),
                 fault, Started(env)),
            fault,
            <<Say("stderr", "Error: {}", <<>>), Exit("SystemExit(1)")>>))

(***************************************************************************)
(* github.py: handle_pr_noninteractive.  w.gh: whether gh finds the pull   *)
(* request; w.loads: what json.loads makes of gh's stdout (a               *)
(* JSONDecodeError, a list, a dict); w.head: whether the dict has the key   *)
(* headRefName and whether its value is null or a str; w.headRefName and    *)
(* w.body: the values; w.in_origin: whether origin has the branch           *)
(***************************************************************************)
Gh(pr_number, found) ==
    [tool |-> "gh", verb |-> "pr view", a |-> pr_number,
     b |-> IF found THEN <<>> ELSE <<"n","o"," ","p","u","l","l"," ","r","e","q","u","e","s","t","s"," ","f","o","u","n","d">>]

\* re.search(r"(doc|DOC|DEV|dev|ENG|eng)-(\d+)", s): where the leftmost match
\* starts and ends, as <<from, to>>, or None
search_issue(s, teams) ==
    LET at(i) == /\ i + 4 <= Len(s)
                 /\ SubSeq(s, i, i + 2) \in teams
                 /\ s[i + 3] = "-"
                 /\ IsDigit(s[i + 4])
        starts == {i \in DOMAIN s : at(i)}
    IN  IF starts = {} THEN None
        ELSE LET from == CHOOSE i \in starts : \A j \in starts : i <= j
                 to == CHOOSE e \in (from + 4)..Len(s) :
                          /\ \A k \in (from + 4)..e : IsDigit(s[k])
                          /\ (e = Len(s) \/ ~IsDigit(s[e + 1]))
             IN  Some(<<from, to>>)

\* the Linear issue of the pull request: from the branch's name, else from the
\* body (re.IGNORECASE), in upper case
linear_issue_id_of(pr_branch, pr_body) ==
    LET in_branch == search_issue(pr_branch, {<<"d","o","c">>, <<"D","O","C">>, <<"D","E","V">>, <<"d","e","v">>, <<"E","N","G">>, <<"e","n","g">>})
        in_body == search_issue(StrUpper(pr_body), {<<"D","O","C">>, <<"D","E","V">>, <<"E","N","G">>})
    IN  IF in_branch # None
        THEN Some(StrUpper(SubSeq(pr_branch, in_branch[1][1], in_branch[1][2])))
        ELSE IF pr_body # <<>> /\ in_body # None
        THEN Some(StrUpper(SubSeq(pr_body, in_body[1][1], in_body[1][2])))
        ELSE None

skill_instruction_of(repo_root) ==
    IF Contains(StrLower(PathName(repo_root)), <<"v","c","l","u","s","t","e","r","-","d","o","c","s">>)
    THEN <<<<"A","c","t","i","v","a","t","e"," ","t","h","e"," ","v","c","l","u","s","t","e","r","-","d","o","c","s","-","w","r","i","t","e","r"," ","s","k","i","l","l"," ","t","o"," ","g","e","t"," ","c","o","n","t","e","x","t","-","a","w","a","r","e"," ","a","s","s","i","s","t","a","n","c","e",".">>>>
    ELSE IF Contains(StrLower(PathName(repo_root)), <<"p","l","a","t","f","o","r","m","-","d","o","c","s">>)
    THEN <<<<"A","c","t","i","v","a","t","e"," ","a","p","p","r","o","p","r","i","a","t","e"," ","d","o","c","u","m","e","n","t","a","t","i","o","n"," ","s","k","i","l","l","s",".">>>>
    ELSE <<>>

RECURSIVE JoinWith(_, _)
JoinWith(parts, sep) ==
    IF parts = <<>> THEN <<>>
    ELSE IF Len(parts) = 1 THEN parts[1]
    ELSE parts[1] \o sep \o JoinWith(Tail(parts), sep)

\* the handler goes on although the metadata is unusable
pr_metadata_or_go_on(w) == <<>>

\* json.loads(pr_info.stdout), pr_data["headRefName"], pr_data.get("body", "")
\* and the two re.search: the exception one of them raises, if any
pr_metadata(w) ==
    IF w.loads = "JSONDecodeError" \/ w.loads = "list" \/ w.head = "absent" \/ w.head = "null"
    THEN <<Say("stderr", "Unexpected error: {}", <<>>), Exit("SystemExit(1)")>>
    ELSE <<>>

handle_pr_noninteractive(a, w, top, fault, env) ==
    LET repo_root == IF a.repo_path = <<".">> THEN git_stdout_to_path(PathStr(top) \o newline)
                     ELSE PathResolve(top, PathOf(a.repo_path))
        pr_branch == w.headRefName
        linear_issue_id == linear_issue_id_of(pr_branch, w.body)
        wt_base == get_worktree_base(repo_root)
        wt_name == <<"p","r","-">> \o a.pr_number \o <<"-">> \o Replace(pr_branch, <<"/">>, <<"-">>)
        wt_path == PathJoin(wt_base, PathOf(wt_name))
        initial_prompt ==
            JoinWith((IF linear_issue_id # None
                      THEN <<<<"/","o","p","s","-","l","i","n","e","a","r","-","i","s","s","u","e"," ">> \o linear_issue_id[1]>> ELSE <<>>)
                     \o skill_instruction_of(repo_root)
                     \o <<<<"/","o","p","s","-","p","r","-","r","e","v","i","e","w"," ">> \o a.pr_number>>,
                     <<"\n", "\n">>)
        session_name == GetStr(a.session_name)
    IN  Ended(Except(
            Exec(When(a.repo_path = <<".">>, <<Run(show_toplevel, TRUE)>>)
                 \o <<Run(Gh(a.pr_number, w.gh), TRUE)>>
                 \o pr_metadata(w)
                 \o <<mkdir(wt_base),
                      Branch([Git("fetch origin", pr_branch, <<>>) EXCEPT
                                 !.b = IF w.in_origin THEN <<>> ELSE <<"n","o","t"," ","f","o","u","n","d">>],
                             <<Branch(Git("show-ref --verify", pr_branch, <<>>), <<>>,
                                      <<Run(Git("branch", pr_branch, <<"o","r","i","g","i","n","/">> \o pr_branch),
                                            TRUE)>>)>>,
                             <<Run(Git("fetch origin pull", a.pr_number, pr_branch), TRUE)>>)>>
                 \o (IF wt_path \notin env.dirs
                     THEN <<Run(Git("worktree add", PathStr(wt_path), pr_branch), TRUE),
                            Say("stderr", "Created worktree at {}", PathStr(wt_path))>>
                     ELSE <<Run(Git("pull", PathStr(wt_path), <<>>), TRUE),
                            Say("stderr",
                                "Worktree already exists at {}, pulled latest changes",
                                PathStr(wt_path))>>)
                 \o <<create_worktree_context(wt_path, <<"P","R"," ","#">> \o a.pr_number, pr_branch,
                                              repo_root),
                      Say("print", "{}", PathStr(wt_path))>>
                 \o When(session_name # <<>>,
                         <<Fs("append", PathOf(<<"/","t","m","p","/","c","l","a","u","d","e","-","w","t","-","s","e","s","s","i","o","n","-","d","e","b","u","g",".","l","o","g">>), <<>>),
                           Branch(Tmux("has-session", session_name, <<>>),
                                  <<>>,
                                  <<Run(Tmux("new-session", session_name, PathStr(wt_path)),
                                        FALSE)>>),
                           Run(Tmux("send-keys", session_name \o <<":","w","o","r","k">>, initial_prompt),
                               FALSE),
                           Run(Tmux("switch-client", session_name, <<>>), FALSE)>>)
                 \o <<Exit("SystemExit(0)")>>,
                 fault, Started(env)),
            fault,
            <<Say("stderr", "Error: {}", <<>>), Exit("SystemExit(1)")>>))

(***************************************************************************)
(* The arguments the commands are called with and the environments they    *)
(* are started in                                                          *)
(***************************************************************************)
MaxFault == 10

MaxClock == 1

Faults == {{}} \cup {{k} : k \in 1..MaxFault}

\* Path.home()
HomeDir == PathOf(<<"/","h">>)

\* a repository named proj and the repository of claude-wt itself, both in ~/dev
Repos == { PathOf(<<"/","h","/","d","e","v","/","p","r","o","j">>), PathOf(<<"/","h","/","d","e","v","/","c","l","a","u","d","e","-","w","t">>) }

\* --name: none (the timestamp is used), a plain name, a name with a slash
Names == { <<>>, <<"x">>, <<"f","e","a","t","u","r","e","/","x">> }

\* --branch: none (the current branch is used) or a remote reference
SourceBranches == { <<>>, <<"o","r","i","g","i","n","/","m","a","i","n">> }

Query == <<"f","i","x">>

CliNewArgs ==
    [query : {Query}, branch : SourceBranches, name : Names,
     no_pull : BOOLEAN, print_path : BOOLEAN]

CreateNewWorktreeArgs ==
    [query : {Query}, branch : SourceBranches, name : Names,
     pull : BOOLEAN, print_path : BOOLEAN]

\* a local branch of the user's own
feature_x == <<"f","e","a","t","u","r","e","/","x">>

\* another local branch, whose name differs from feature/x in one character
feature_dash_x == <<"f","e","a","t","u","r","e","-","x">>

MaterializeArgs == [branch_name : {feature_x, <<"g","o","n","e">>}]

CleanArgs == [branch_name : {<<>>, <<"x">>, feature_x}, all : BOOLEAN]

SwitchArgs == [continue_session : BOOLEAN]

MaxPick == 2

\* what the process finds around it: w.ignored (check_gitignore's answer),
\* w.in_tmux (TMUX is set), w.which (claude is on PATH), w.git_crypt
\* (.git/git-crypt exists), w.pick (the user's choice in the picker)
CliNewWorlds == [ignored : BOOLEAN, in_tmux : BOOLEAN]

CreateWorlds == [in_tmux : BOOLEAN, which : BOOLEAN, git_crypt : BOOLEAN]

TmuxWorlds == [in_tmux : BOOLEAN, which : BOOLEAN]

PickerWorlds == [pick : 0..MaxPick, in_tmux : BOOLEAN, which : BOOLEAN]

NoWorld == [none |-> TRUE]

LinearArgs ==
    [issue_id : {<<"D","O","C","-","1">>, <<"D","o","c","/","1">>}, repo_path : {<<".">>}, interactive : BOOLEAN,
     session_name : {None, Some(<<"d","o","c","-","1">>)}]

LinearWorlds == [zenity : 0..MaxPick, suffix : {None, Some(<<>>), Some(<<"y">>)}]

LaunchArgs == [session_name : {wt_prefix \o <<"x">>, <<"d","o","c","-","1">>}, initial_prompt : {Query}]

PrArgs == [pr_number : {<<"7">>}, repo_path : {<<".">>}, session_name : {None, Some(<<"p","r","-","7">>)}]

\* gh does not find the pull request; its stdout is not JSON, or not an
\* object; the object has no headRefName, or null; or it names the branch
PrWorlds ==
    [gh : {FALSE}, loads : {"dict"}, head : {"str"}, headRefName : {feature_x},
     body : {<<>>}, in_origin : {TRUE}]
    \cup [gh : {TRUE}, loads : {"JSONDecodeError", "list"}, head : {"absent"},
          headRefName : {feature_x}, body : {<<>>}, in_origin : {TRUE}]
    \cup [gh : {TRUE}, loads : {"dict"}, head : {"absent", "null"},
          headRefName : {feature_x}, body : {<<>>}, in_origin : {TRUE}]
    \cup [gh : {TRUE}, loads : {"dict"}, head : {"str"},
          headRefName : {feature_x, <<"d","o","c","-","1","-","f","i","x">>}, body : {<<>>, <<"F","i","x","e","s"," ","e","n","g","-","2">>},
          in_origin : BOOLEAN]

\* a terminal inside tmux, claude installed, .gitignore set up, no git-crypt,
\* the first line chosen in the picker
PlainWorld ==
    [ignored |-> TRUE, in_tmux |-> TRUE, which |-> TRUE, git_crypt |-> FALSE, pick |-> 1]

CliWorktree(top, name) ==
    [path |-> PathJoin(get_worktree_base(top), PathOf(claude_wt_prefix \o name)),
     branch |-> claude_wt_prefix \o name]

\* the branch and the worktree handle_linear_issue made for DOC-1, suffix y
doc_1_y == <<"d","o","c","-","1","/","y">>

IssueWorktree(top) ==
    [path |-> PathJoin(get_worktree_base(top), PathOf(<<"d","o","c","-","1","-","y">>)), branch |-> doc_1_y]

\* the worktree materialize_branch made of a branch
Materialized(top, branch_name) ==
    [path |-> PathJoin(get_worktree_base(top), PathOf(materialize_wt_name(top, branch_name))),
     branch |-> branch_name]

\* environments earlier commands leave behind: a fresh clone; a session x made
\* by cli.py's new; its branch without the worktree, and a branch doc-1/z
\* without one; the sessions x, y and z of cli.py's new around the worktree
\* of an issue; the branch feature/x materialized, its tmux session open
StartEnvs(top) ==
    { [dirs |-> {}, heads |-> {main, feature_x}, worktrees |-> <<>>, sessions |-> {}],
      [dirs |-> {CliWorktree(top, <<"x">>).path},
       heads |-> {main, feature_x, claude_wt_prefix \o <<"x">>},
       worktrees |-> <<CliWorktree(top, <<"x">>)>>,
       sessions |-> {wt_prefix \o <<"x">>}],
      [dirs |-> {},
       heads |-> {main, feature_x, claude_wt_prefix \o <<"x">>, <<"d","o","c","-","1","/","z">>},
       worktrees |-> <<>>,
       sessions |-> {}],
      [dirs |-> {CliWorktree(top, <<"x">>).path, IssueWorktree(top).path,
                 CliWorktree(top, <<"y">>).path, CliWorktree(top, <<"z">>).path},
       heads |-> {main, feature_x, doc_1_y, claude_wt_prefix \o <<"x">>,
                  claude_wt_prefix \o <<"y">>, claude_wt_prefix \o <<"z">>},
       worktrees |-> <<CliWorktree(top, <<"x">>), IssueWorktree(top),
                       CliWorktree(top, <<"y">>), CliWorktree(top, <<"z">>)>>,
       sessions |-> {}],
      [dirs |-> {Materialized(top, feature_x).path},
       heads |-> {main, feature_x},
       worktrees |-> <<Materialized(top, feature_x)>>,
       sessions |-> {wt_prefix \o materialize_wt_name(top, feature_x)}] }

WorkInit(envs) ==
    /\ checkout \in Repos
    /\ \E env \in envs :
          /\ dirs = env.dirs
          /\ heads = env.heads
          /\ worktrees = env.worktrees
          /\ sessions = env.sessions
    /\ clock = 0
    /\ history = <<>>
    /\ IdentIdle
    /\ RepoIdle
    /\ RaceIdle

\* the command ran to its end r: git's and tmux's state is what it left, and
\* the call is entered in history
Finish(op, a, w, r) ==
    /\ dirs' = r.env.dirs
    /\ heads' = r.env.heads
    /\ worktrees' = r.env.worktrees
    /\ sessions' = r.env.sessions
    /\ history' = Append(history, [op |-> op, a |-> a, w |-> w, now |-> clock,
                                   before |-> Env,
                                   cmds |-> r.cmds, failed |-> r.failed, out |-> r.out,
                                   ret |-> r.ret, fs |-> r.fs, ended |-> r.ended])
    /\ UNCHANGED <<checkout, clock, identVars, repoVars, raceVars>>

\* a second passes
Tick ==
    /\ clock < MaxClock
    /\ clock' = clock + 1
    /\ UNCHANGED <<checkout, dirs, heads, worktrees, sessions, history, identVars, repoVars,
                   raceVars>>

CliNew(args, worlds, faults) ==
    \E a \in args, w \in worlds, fault \in faults :
        Finish("cli.new", a, w, cli_new(a, w, checkout, clock, fault, Env))

CreateNewWorktree(args, worlds, faults) ==
    \E a \in args, w \in worlds, fault \in faults :
        Finish("create_new_worktree", a, w,
               create_new_worktree(a, w, checkout, clock, fault, Env))

MaterializeBranch(args, worlds, faults) ==
    \E a \in args, w \in worlds, fault \in faults :
        Finish("materialize_branch", a, w, materialize_branch(a, w, checkout, fault, Env))

ListAllWorktrees(faults) ==
    \E fault \in faults :
        Finish("list_all_worktrees", [none |-> TRUE], NoWorld,
               Ended(list_all_worktrees(HomeDir, checkout, fault, Started(Env))))

SwitchWorktree(args, worlds, faults) ==
    \E a \in args, w \in worlds, fault \in faults :
        Finish("switch_worktree", a, w, switch_worktree(a, w, HomeDir, checkout, fault, Env))

CliClean(args, faults) ==
    \E a \in args, fault \in faults :
        Finish("cli.clean", a, NoWorld, cli_clean(a, checkout, fault, Env))

CleanWorktrees(args, worlds, faults) ==
    \E a \in args, w \in worlds, fault \in faults :
        Finish("clean_worktrees", a, w, clean_worktrees(a, w, HomeDir, checkout, fault, Env))

HandleLinearIssue(args, worlds, faults) ==
    \E a \in args, w \in worlds, fault \in faults :
        Finish("handle_linear_issue", a, w,
               handle_linear_issue(a, w, checkout, clock, fault, Env))

LaunchClaudeInTmux(args, faults) ==
    \E a \in args, fault \in faults :
        Finish("launch_claude_in_tmux", a, NoWorld,
               Ended(Exec(launch_claude_in_tmux(a.session_name,
                                                CliWorktree(checkout, <<"x">>).path,
                                                a.initial_prompt),
                          fault, Started(Env))))

HandlePrNoninteractive(args, worlds, faults) ==
    \E a \in args, w \in worlds, fault \in faults :
        Finish("handle_pr_noninteractive", a, w,
               handle_pr_noninteractive(a, w, checkout, fault, Env))

CliResume(args, faults) ==
    \E a \in args, fault \in faults :
        Finish("cli.resume", a, NoWorld, cli_resume(a, checkout, fault, Env))

CliList(faults) ==
    \E fault \in faults :
        Finish("cli.list", [none |-> TRUE], NoWorld, cli_list(checkout, fault, Env))

\* one command, with any arguments, in any world, with any subprocess failing
OnceNext ==
    \/ history = <<>> /\ Tick
    \/ history = <<>> /\ CliNew(CliNewArgs, CliNewWorlds, Faults)
    \/ history = <<>> /\ CreateNewWorktree(CreateNewWorktreeArgs, CreateWorlds, Faults)
    \/ history = <<>> /\ MaterializeBranch(MaterializeArgs, TmuxWorlds, Faults)
    \/ history = <<>> /\ ListAllWorktrees(Faults)
    \/ history = <<>> /\ SwitchWorktree(SwitchArgs, PickerWorlds, Faults)
    \/ history = <<>> /\ CliClean(CleanArgs, Faults)
    \/ history = <<>> /\ CleanWorktrees(CleanArgs, PickerWorlds, Faults)
    \/ history = <<>> /\ HandleLinearIssue(LinearArgs, LinearWorlds, Faults)
    \/ history = <<>> /\ LaunchClaudeInTmux(LaunchArgs, Faults)
    \/ history = <<>> /\ HandlePrNoninteractive(PrArgs, PrWorlds, Faults)
    \/ history = <<>> /\ CliResume([branch_name : {<<"x">>, <<"g","o","n","e">>}], Faults)
    \/ history = <<>> /\ CliList(Faults)

SpecOnce == WorkInit(StartEnvs(checkout)) /\ [][OnceNext]_vars

MaxOps == 2

\* the options at their quiet values: no pull, the path printed, no tmux;
\* no name or a plain one for cli.py's new, no name or one with a slash for
\* create_new_worktree
SessionNewArgs ==
    [query : {Query}, branch : {<<>>}, name : {<<>>, <<"x">>}, no_pull : {TRUE},
     print_path : {TRUE}]

SessionCreateArgs ==
    [query : {Query}, branch : {<<>>}, name : {<<>>, feature_x}, pull : {FALSE},
     print_path : {TRUE}]

SessionCleanArgs == {[branch_name |-> <<"x">>, all |-> FALSE], [branch_name |-> <<>>, all |-> TRUE]}

\* the hook's call: no dialogs, no tmux session
SessionLinearArgs ==
    [issue_id : {<<"D","O","C","-","1">>}, repo_path : {<<".">>}, interactive : {FALSE}, session_name : {None}]

SessionLinearWorlds == {[zenity |-> 0, suffix |-> None]}

FreshEnv(top) ==
    {[dirs |-> {}, heads |-> {main, feature_x, feature_dash_x}, worktrees |-> <<>>,
      sessions |-> {}]}

\* commands one after the other in a fresh clone, no subprocess failing
\* unless git's or tmux's state makes it fail
SessionNext ==
    \/ Tick
    \/ Len(history) < MaxOps /\ CliNew(SessionNewArgs, {PlainWorld}, {{}})
    \/ Len(history) < MaxOps /\ CreateNewWorktree(SessionCreateArgs, {PlainWorld}, {{}})
    \/ Len(history) < MaxOps /\ MaterializeBranch([branch_name : {feature_x, feature_dash_x}], {PlainWorld}, {{}})
    \/ Len(history) < MaxOps /\ ListAllWorktrees({{}})
    \/ Len(history) < MaxOps /\ SwitchWorktree([continue_session : {FALSE}], {PlainWorld}, {{}})
    \/ Len(history) < MaxOps /\ CliClean(SessionCleanArgs, {{}})
    \/ Len(history) < MaxOps /\ CleanWorktrees(SessionCleanArgs, {PlainWorld}, {{}})
    \/ Len(history) < MaxOps /\ HandleLinearIssue(SessionLinearArgs, SessionLinearWorlds, {{}})

SpecSession == WorkInit(FreshEnv(checkout)) /\ [][SessionNext]_vars

(***************************************************************************)
(* worktree.py: create_new_worktree in two processes at once.  Each        *)
(* subprocess and each access to the filesystem is a step of its own; the  *)
(* steps of the two processes interleave in any order.  The processes are  *)
(* called with no --branch, no --pull and --print-path; the git calls that  *)
(* find the repository and its current branch, which change nothing, are   *)
(* one step                                                                *)
(***************************************************************************)
Procs == {1, 2}

RaceNames == { <<"x">>, feature_x, feature_dash_x }

\* what a file holds: the template and the values that fill it, those the
\* template does not use left empty
Content(c) ==
    [k \in {"template", "wt_path", "issue_id", "branch_name", "repo_root"} |->
        IF k \in DOMAIN c THEN c[k] ELSE <<>>]

\* a CLAUDE.md of the repository's own
repo_claude_md(top) ==
    [path |-> PathJoin(top, PathOf(claude_md)),
     content |-> Content([template |-> "repository"])]

race_branch_name(name) == claude_wt_prefix \o name

race_wt_path(top, name) ==
    PathJoin(get_worktree_base(top),
             PathOf(PathName(top) \o <<"-">> \o ReplaceChar(race_branch_name(name), "/", <<"-">>)))

\* the file is left alone when it exists
write_if_absent(fs, path, content) ==
    IF \E f \in fs : f.path = path THEN fs
    ELSE fs \cup {[path |-> path, content |-> content]}

\* Path.write_text: the file holds content, whatever it held
write_file(fs, path, content) ==
    {f \in fs : f.path # path} \cup {[path |-> path, content |-> content]}

RaceInit ==
    /\ checkout \in Repos
    /\ \E env \in FreshEnv(checkout) :
          /\ dirs = env.dirs
          /\ heads = env.heads
          /\ worktrees = env.worktrees
          /\ sessions = env.sessions
    /\ clock = 0
    /\ history = <<>>
    /\ procs \in [Procs -> [name : RaceNames, pc : {"start"}, seen : {FALSE},
                            cmds : {<<>>}]]
    /\ files \in {{}, {repo_claude_md(checkout)}}
    /\ writes = <<>>
    /\ IdentIdle
    /\ RepoIdle

raceRest == <<checkout, clock, history, identVars, repoVars>>

\* process p runs the subprocess cmd: git's state changes when it succeeds
RaceRun(p, cmd, then, else) ==
    LET ok == CanSucceed(cmd, Env)
        env == IF ok THEN Effect(cmd, Env) ELSE Env
    IN  /\ dirs' = env.dirs
        /\ heads' = env.heads
        /\ worktrees' = env.worktrees
        /\ sessions' = env.sessions
        /\ procs' = [procs EXCEPT ![p].cmds = Append(@, cmd),
                                  ![p].pc = IF ok THEN then ELSE else]

\* process p writes a file
RaceWrite(p, path, content, then) ==
    /\ files' = write_file(files, path, content)
    /\ writes' = Append(writes, [by |-> p, path |-> path, content |-> content])
    /\ procs' = [procs EXCEPT ![p].pc = then]

\* git rev-parse --show-toplevel, git branch --show-current, git switch to
\* the branch that is current
RaceStart(p) ==
    /\ procs[p].pc = "start"
    /\ procs' = [procs EXCEPT ![p].cmds = @ \o <<show_toplevel,
                                                 Git("branch --show-current", <<>>, <<>>),
                                                 Git("switch", main, <<>>)>>,
                              ![p].pc = "show-ref"]
    /\ UNCHANGED <<dirs, heads, worktrees, sessions, files, writes, raceRest>>

\* git show-ref --verify refs/heads/<branch_name>
RaceShowRef(p) ==
    /\ procs[p].pc = "show-ref"
    /\ RaceRun(p, Git("show-ref --verify", race_branch_name(procs[p].name), <<>>),
               "exists", "branch")
    /\ UNCHANGED <<files, writes, raceRest>>

\* git branch <branch_name> <source_branch>, check=True: the
\* CalledProcessError is not caught
RaceBranch(p) ==
    /\ procs[p].pc = "branch"
    /\ RaceRun(p, Git("branch", race_branch_name(procs[p].name), main), "exists", "raised")
    /\ UNCHANGED <<files, writes, raceRest>>

\* worktree_base.mkdir(parents=True, exist_ok=True); wt_path.exists()
RaceExists(p) ==
    /\ procs[p].pc = "exists"
    /\ LET seen == race_wt_path(checkout, procs[p].name) \in dirs
       IN  procs' = [procs EXCEPT ![p].seen = seen,
                                  ![p].pc = IF seen THEN "context" ELSE "add"]
    /\ UNCHANGED <<dirs, heads, worktrees, sessions, files, writes, raceRest>>

\* create_worktree without git-crypt: git worktree add, check=True
RaceWorktreeAdd(p) ==
    /\ procs[p].pc = "add"
    /\ RaceRun(p, Git("worktree add", PathStr(race_wt_path(checkout, procs[p].name)),
                      race_branch_name(procs[p].name)),
               "context", "raised")
    /\ UNCHANGED <<files, writes, raceRest>>

RaceContext(p) ==
    /\ procs[p].pc = "context"
    /\ LET step == create_worktree_context(race_wt_path(checkout, procs[p].name),
                                           race_branch_name(procs[p].name),
                                           race_branch_name(procs[p].name), checkout)
       IN  RaceWrite(p, step.fs.path, Content(step.fs.content), "copy")
    /\ UNCHANGED <<dirs, heads, worktrees, sessions, raceRest>>

\* copy_gitignored_files: the repository's CLAUDE.md, when it has one, is
\* copied over the worktree's
RaceCopy(p) ==
    /\ procs[p].pc = "copy"
    /\ IF repo_claude_md(checkout) \in files
       THEN RaceWrite(p, PathJoin(race_wt_path(checkout, procs[p].name), PathOf(claude_md)),
                      repo_claude_md(checkout).content, "hook")
       ELSE /\ procs' = [procs EXCEPT ![p].pc = "hook"]
            /\ UNCHANGED <<files, writes>>
    /\ UNCHANGED <<dirs, heads, worktrees, sessions, raceRest>>

\* install_branch_protection_hook, then print(str(wt_path)) and return
RaceHook(p) ==
    /\ procs[p].pc = "hook"
    /\ LET step == install_branch_protection_hook(checkout,
                                                  race_wt_path(checkout, procs[p].name),
                                                  race_branch_name(procs[p].name))
       IN  RaceWrite(p, step.fs.path, Content(step.fs.content), "done")
    /\ UNCHANGED <<dirs, heads, worktrees, sessions, raceRest>>

RaceNext ==
    \/ \E p \in Procs : RaceStart(p)
    \/ \E p \in Procs : RaceShowRef(p)
    \/ \E p \in Procs : RaceBranch(p)
    \/ \E p \in Procs : RaceExists(p)
    \/ \E p \in Procs : RaceWorktreeAdd(p)
    \/ \E p \in Procs : RaceContext(p)
    \/ \E p \in Procs : RaceCopy(p)
    \/ \E p \in Procs : RaceHook(p)

SpecRace == RaceInit /\ [][RaceNext]_vars

(***************************************************************************)
(* Claims about single commands                                            *)
(***************************************************************************)
Calls == {history[i] : i \in DOMAIN history}

Issued(h, tool, verb) == {j \in DOMAIN h.cmds : h.cmds[j].tool = tool /\ h.cmds[j].verb = verb}

IssuedBy(h, tool) == {j \in DOMAIN h.cmds : h.cmds[j].tool = tool}

\* the str s names a direct child of the directory base
IsDirectChild(s, base) ==
    LET prefix == PathStr(base) \o <<"/">>
    IN  /\ StartsWith(s, prefix)
        /\ Len(s) > Len(prefix)
        /\ "/" \notin Range(SubSeq(s, Len(prefix) + 1, Len(s)))

\* C11: every path handed to git worktree add, by any command that creates a
\* worktree, is a direct child of the repository's worktree base: the name of
\* the directory contains no '/'
C11_WorktreeIsChildOfBase ==
    \A h \in Calls : \A j \in Issued(h, "git", "worktree add") :
        IsDirectChild(h.cmds[j].a, get_worktree_base(checkout))

\* C15: new with print_path, once it has succeeded, has written exactly one
\* thing to standard output, the path of the worktree, which exists, and has
\* started no tmux command and no Claude process, whatever its other options
C15_PrintPathPrintsOnlyThePath ==
    \A h \in Calls :
        (/\ h.op \in {"cli.new", "create_new_worktree"}
         /\ h.a.print_path
         /\ h.ended = "return")
        => /\ Len(h.out) = 1
           /\ h.out[1].by = "print"
           /\ PathOf(h.out[1].arg) \in dirs
           /\ IssuedBy(h, "tmux") = {}
           /\ IssuedBy(h, "claude") = {}

\* C16: cli.py's new never ends with an exception nobody caught: it returns,
\* or it exits with code 1 after printing an error
C16_NewEndsWithExitCode ==
    \A h \in Calls :
        h.op = "cli.new"
        => /\ h.ended \in {"return", "SystemExit(1)"}
           /\ (h.ended = "SystemExit(1)" => h.out # <<>>)

\* clean --all that got the listing of the worktrees from git
CleanedAll(h) ==
    /\ h.op \in {"cli.clean", "clean_worktrees"}
    /\ h.a.all
    /\ h.a.branch_name = <<>>
    /\ Issued(h, "git", "worktree list --porcelain") # {}
    /\ \A k \in DOMAIN h.out : h.out[k].template # "No worktrees found"

\* the worktree dicts the command read from the listing
Listing(h) == parse_worktrees(SplitOn(porcelain(checkout, h.before), "\n"), no_worktree)

Removes(h) == Issued(h, "git", "worktree remove --force")

FailedRemoves(h) == Removes(h) \cap h.failed

Said(h, template) == {k \in DOMAIN h.out : h.out[k].template = template}

\* C13: clean --all is best-effort: whichever removals fail, a removal is
\* attempted for every worktree of the listing that is_claude_wt_worktree
\* accepts, the branches are listed for deletion afterwards, each failed
\* removal is reported as a failure and each other one as a success, and the
\* command returns
C13_BulkCleanIsBestEffort ==
    \A h \in Calls :
        CleanedAll(h)
        => /\ \A i \in DOMAIN Listing(h) :
                  is_claude_wt_worktree(Listing(h)[i])
                  => \E j \in Removes(h) : h.cmds[j].a = GetStr(Listing(h)[i].path)
           /\ \E j \in Issued(h, "git", "branch --list") : \A k \in Removes(h) : k < j
           /\ Cardinality(Said(h, "Failed to remove worktree: {}"))
                  = Cardinality(FailedRemoves(h))
           /\ Cardinality(Said(h, "Removed worktree: {}"))
                  = Cardinality(Removes(h) \ FailedRemoves(h))
           /\ h.ended = "return"

\* three claude-wt worktrees, the removal of the second one failed, the third
\* one is gone: one failure and two successes
C13_Witness ==
    \E h \in Calls :
        /\ CleanedAll(h)
        /\ Cardinality(Removes(h)) = 3
        /\ \E j \in Removes(h) :
              /\ FailedRemoves(h) = {j}
              /\ h.cmds[j].a = PathStr(CliWorktree(checkout, <<"y">>).path)
              /\ \E k \in Removes(h) :
                    /\ k > j
                    /\ h.cmds[k].a = PathStr(CliWorktree(checkout, <<"z">>).path)
        /\ CliWorktree(checkout, <<"z">>).path \notin Registered(Env) \cup dirs
        /\ Cardinality(Said(h, "Failed to remove worktree: {}")) = 1
        /\ Cardinality(Said(h, "Removed worktree: {}")) = 2

\* a command that asks the picker: switch_worktree, and clean_worktrees
\* without a name and without --all
AsksPicker(h) ==
    \/ h.op = "switch_worktree"
    \/ h.op = "clean_worktrees" /\ h.a.branch_name = <<>> /\ ~h.a.all

\* the picker ran and exited non-zero: nothing was chosen
NoChoice(h) == \E j \in IssuedBy(h, "fzf") : j \in h.failed

\* the subprocesses that only read: git's two questions about a worktree, and
\* the picker itself
ReadsOnly(cmd) ==
    \/ cmd.tool = "fzf"
    \/ cmd.tool = "git" /\ cmd.verb \in {"rev-parse --git-common-dir",
                                          "rev-parse --abbrev-ref HEAD"}

C19_LauncherOrder ==
    \A h \in Calls :
        h.op = "launch_claude_in_tmux"
        => LET n == Len(h.cmds)
               absent == 1 \in h.failed
           IN  /\ n = IF absent THEN 4 ELSE 3
               /\ h.cmds[1] = Tmux("has-session", h.a.session_name, <<>>)
               /\ Issued(h, "tmux", "new-session") = IF absent THEN {2} ELSE {}
               /\ \A j \in Issued(h, "tmux", "new-session") :
                      h.cmds[j].a = h.a.session_name
               /\ Issued(h, "tmux", "send-keys") = {n - 1}
               /\ Contains(h.cmds[n - 1].b, claude_launcher)
               /\ Contains(h.cmds[n - 1].b, h.a.initial_prompt)
               /\ StartsWith(h.cmds[n - 1].a, h.a.session_name)
               /\ Issued(h, "tmux", "switch-client") = {n}
               /\ IssuedBy(h, "tmux") = DOMAIN h.cmds
               /\ h.ended = "return"

\* the session was there: three commands, none of them new-session
C19_Witness ==
    \E h \in Calls :
        /\ h.op = "launch_claude_in_tmux"
        /\ h.a.session_name \in h.before.sessions
        /\ h.failed = {}
        /\ Len(h.cmds) = 3
        /\ Issued(h, "tmux", "new-session") = {}
        /\ Issued(h, "tmux", "send-keys") = {2}

(***************************************************************************)
(* Claims about commands run one after the other                           *)
(***************************************************************************)
\* the call made a worktree, by git worktree add, and its directory exists
MadeWorktree(h) ==
    \E j \in Issued(h, "git", "worktree add") : PathOf(h.cmds[j].a) \in dirs

\* C12: in the repository proj, once materialize_branch or create_new_worktree
\* has made a worktree for feature/x, the list_all_worktrees that follows
\* returns an entry whose session contains feature-x and whose path exists
C12_CreatedWorktreeIsListed ==
    \A i \in 1..(Len(history) - 1) :
        (/\ PathName(checkout) = <<"p","r","o","j">>
         /\ \/ /\ history[i].op = "materialize_branch"
               /\ history[i].a.branch_name = feature_x
            \/ /\ history[i].op = "create_new_worktree"
               /\ history[i].a.name = feature_x
         /\ MadeWorktree(history[i])
         /\ history[i + 1].op = "list_all_worktrees")
        => \E e \in Range(history[i + 1].ret) :
              /\ Contains(e.session, <<"f","e","a","t","u","r","e","-","x">>)
              /\ PathOf(e.path) \in dirs

\* what the claim calls a claude-wt worktree: its branch name starts with
\* claude-wt- or its path contains -worktrees/claude-wt-
IsClaudeWt(wt) ==
    \/ StartsWith(wt.branch, claude_wt_prefix)
    \/ Contains(PathStr(wt.path), external_marker)

\* C18: clean --all issues git worktree remove exactly once for each listed
\* worktree that is a claude-wt worktree, and never for another one, the
\* checkout of the repository included
C18_CleanAllRemovesExactlyClaudeWt ==
    \A h \in Calls :
        CleanedAll(h)
        => \A wt \in {[path |-> checkout, branch |-> main]} \cup Range(h.before.worktrees) :
              Cardinality({j \in Removes(h) : h.cmds[j].a = PathStr(wt.path)})
                  = IF IsClaudeWt(wt) THEN 1 ELSE 0

\* C17: once new with name N has made a worktree, the clean N that follows
\* issues git worktree remove --force on the path new created and then
\* deletes the branch claude-wt-N
C17_CleanRemovesWhatNewCreated ==
    \A i \in 1..(Len(history) - 1) :
        LET new == history[i]
            clean == history[i + 1]
        IN  (/\ new.op \in {"cli.new", "create_new_worktree"}
             /\ new.a.name # <<>>
             /\ new.ended = "return"
             /\ Issued(new, "git", "worktree add") \ new.failed # {}
             /\ clean.op \in {"cli.clean", "clean_worktrees"}
             /\ clean.a.branch_name = new.a.name
             /\ ~clean.a.all)
            => \E j \in Removes(clean), k \in Issued(clean, "git", "branch -D") :
                  /\ \A m \in Issued(new, "git", "worktree add") :
                        clean.cmds[j].a = new.cmds[m].a
                  /\ Cardinality(Removes(clean)) = 1
                  /\ j < k
                  /\ k \notin clean.failed
                  /\ clean.cmds[k].a = claude_wt_prefix \o new.a.name
                  /\ claude_wt_prefix \o new.a.name \notin heads

Creates(h) == h.op \in {"cli.new", "create_new_worktree", "handle_linear_issue"}

ShowRefs(h) == Issued(h, "git", "show-ref --verify")

Branches(h) == Issued(h, "git", "branch")

Adds(h) == Issued(h, "git", "worktree add")

Succeeded(h) == h.ended \in {"return", "SystemExit(0)"}

\* git branch follows show-ref exactly when show-ref did not find the branch,
\* and comes before git worktree add; git worktree add is issued exactly
\* when the directory the command prints was not there
AddsOnlyWhatIsMissing(h) ==
    /\ \A j \in ShowRefs(h) :
          j \in h.failed
          <=> (j + 1 \in Branches(h) /\ h.cmds[j + 1].a = h.cmds[j].a)
    /\ \A k \in Branches(h) : k - 1 \in ShowRefs(h)
    /\ \A k \in Branches(h), m \in Adds(h) : k < m
    /\ \A m \in Adds(h) : PathOf(h.cmds[m].a) \notin h.before.dirs
    /\ (Succeeded(h) /\ ShowRefs(h) # {})
       => \A k \in DOMAIN h.out :
             h.out[k].by = "print"
             => (PathOf(h.out[k].arg) \notin h.before.dirs
                 <=> \E m \in Adds(h) : h.cmds[m].a = h.out[k].arg)

\* the same command with the same arguments and answers, run again after it
\* has succeeded
Rerun(i) ==
    /\ Creates(history[i])
    /\ Succeeded(history[i])
    /\ history[i + 1].op = history[i].op
    /\ history[i + 1].a = history[i].a
    /\ history[i + 1].w = history[i].w

\* both runs asked show-ref about the same branch
SameBranch(i) ==
    \A j \in ShowRefs(history[i]), k \in ShowRefs(history[i + 1]) :
        history[i].cmds[j].a = history[i + 1].cmds[k].a

\* C20 as stated: new, create_new_worktree and handle_linear_issue add only
\* what is missing, and run a second time they issue neither git branch nor
\* git worktree add
C20_RerunIssuesNeither ==
    /\ \A h \in Calls : Creates(h) => AddsOnlyWhatIsMissing(h)
    /\ \A i \in 1..(Len(history) - 1) :
          Rerun(i) => Branches(history[i + 1]) = {} /\ Adds(history[i + 1]) = {}

\* C20, amended: new, create_new_worktree and handle_linear_issue add only
\* what is missing, and run a second time for the same branch name they
\* issue neither git branch nor git worktree add
C20_RerunForSameBranchIssuesNeither ==
    /\ \A h \in Calls : Creates(h) => AddsOnlyWhatIsMissing(h)
    /\ \A i \in 1..(Len(history) - 1) :
          (Rerun(i) /\ SameBranch(i))
          => Branches(history[i + 1]) = {} /\ Adds(history[i + 1]) = {}

\* handle_linear_issue made branch and worktree, and run again within the
\* same second it asked show-ref and issued neither command
C20_Witness ==
    \E i \in 1..(Len(history) - 1) :
        /\ Rerun(i)
        /\ history[i].op = "handle_linear_issue"
        /\ ~history[i].a.interactive
        /\ Branches(history[i]) # {}
        /\ Adds(history[i]) # {}
        /\ ShowRefs(history[i + 1]) # {}
        /\ SameBranch(i)
        /\ Branches(history[i + 1]) = {}
        /\ Adds(history[i + 1]) = {}

(***************************************************************************)
(* Claims about materialize_branch                                         *)
(***************************************************************************)
Materializes(h) == h.op = "materialize_branch" /\ 1 \notin h.failed

Last == history[Len(history)]

C21_Resumed ==
    \E h \in Calls :
        /\ Materializes(h)
        /\ Materialized(checkout, h.a.branch_name).path \in h.before.dirs
        /\ h.w.in_tmux
        /\ h.failed = {}
        /\ h.ended = "return"
        /\ Issued(h, "tmux", "switch-client") # {}

(***************************************************************************)
(* Claims about handle_pr_noninteractive                                   *)
(***************************************************************************)
HandlesPr(h) == h.op = "handle_pr_noninteractive"

GhFailed(h) == IssuedBy(h, "gh") \cap h.failed # {}

\* gh answered, and its answer is not a JSON object with a head branch
BadMetadata(h) ==
    /\ IssuedBy(h, "gh") # {}
    /\ ~GhFailed(h)
    /\ (h.w.loads # "dict" \/ h.w.head # "str")

C22_NotFound ==
    \E h \in Calls : HandlesPr(h) /\ ~h.w.gh /\ h.failed = {2} /\ h.ended = "SystemExit(1)"

\* the metadata was good and the worktree was made
C22_Made ==
    \E h \in Calls :
        /\ HandlesPr(h)
        /\ h.ended = "SystemExit(0)"
        /\ Adds(h) \ h.failed # {}
        /\ Said(h, "{}") # {}

(***************************************************************************)
(* Claims about resume and list                                            *)
(***************************************************************************)
\* the worktrees of the session N that git has registered on the branch
\* claude-wt-N and whose directory exists
SessionWorktrees(env, N) ==
    {env.worktrees[i].path : i \in {j \in DOMAIN env.worktrees :
                                       /\ env.worktrees[j].branch = claude_wt_prefix \o N
                                       /\ env.worktrees[j].path \in env.dirs}}

ClaudeWtWorktrees(env) ==
    {env.worktrees[i] : i \in {j \in DOMAIN env.worktrees :
                                  StartsWith(env.worktrees[j].branch, claude_wt_prefix)}}

\* C28: whenever git lists an existing worktree checked out on the branch
\* claude-wt-N, resume N starts Claude in that worktree's directory and does
\* not end with "not found"; and list shows exactly the worktrees that are
\* checked out on branches beginning with claude-wt-.
C28_ResumeFindsListedWorktree ==
    \A h \in Calls :
        /\ (/\ h.op = "cli.resume"
            /\ h.failed \cap {1, 2} = {}
            /\ SessionWorktrees(h.before, h.a.branch_name) # {}) =>
              /\ h.ended = "return"
              /\ \E j \in IssuedBy(h, "claude") :
                    PathOf(h.cmds[j].a) \in SessionWorktrees(h.before, h.a.branch_name)
        /\ (h.op = "cli.list" /\ h.failed = {}) =>
              LET shown == UNION {h.out[k].arg : k \in Said(h, "Claude-wt worktrees for {}")}
              IN  {PathOf(row.path) : row \in shown}
                      = {wt.path : wt \in ClaudeWtWorktrees(h.before)}

(***************************************************************************)
(* Claims about the tmux session of a worktree                             *)
(***************************************************************************)
\* the sessions a call opened, each with the directory it was opened in
Opened(h) ==
    {[session |-> h.cmds[k].a, path |-> h.cmds[k].b] :
        k \in {j \in Issued(h, "tmux", "new-session") : j \notin h.failed}}

Creators == {"create_new_worktree", "materialize_branch"}

\* C29: switch_worktree targets the session that the creator of the chosen
\* worktree opened: after create_new_worktree or materialize_branch opened a
\* session in a worktree, a later switch_worktree never opens a second
\* session, of another name, in that worktree.
C29_SwitchTargetsCreatorsSession ==
    \A i, j \in DOMAIN history :
        (i < j /\ history[i].op \in Creators /\ history[j].op = "switch_worktree") =>
            \A c \in Opened(history[i]), s \in Opened(history[j]) :
                c.path = s.path => c.session = s.session

\* C30: materialize_branch never resumes a worktree that is checked out on
\* another branch than the one asked for: the worktree it finds at the path
\* of the branch, and reports as already existing, is on that branch.
C30_WorktreePerBranch ==
    \A h \in Calls :
        h.op = "materialize_branch" =>
            \A k \in Said(h, "Worktree already exists at {}") :
                \A n \in DOMAIN h.before.worktrees :
                    PathStr(h.before.worktrees[n].path) = h.out[k].arg
                        => h.before.worktrees[n].branch = h.a.branch_name

(***************************************************************************)
(* Claims about two processes creating the same worktree                   *)
(***************************************************************************)
\* the process has run git worktree add for the path
AddedBy(p, path) ==
    \E k \in DOMAIN procs[p].cmds :
        procs[p].cmds[k].verb = "worktree add" /\ procs[p].cmds[k].a = PathStr(path)

WritesTo(path) == {k \in DOMAIN writes : writes[k].path = path}

\* C24: nothing guards two processes that create the same worktree.  A
\* process that found the path absent runs git worktree add for it whatever
\* the other process did meanwhile, so both can run it for one path; and a
\* file that was written holds what the last write to it wrote.
C24_UnguardedCreation ==
    /\ \A p \in DOMAIN procs :
          (procs[p].pc \in {"context", "copy", "hook", "done"} /\ ~procs[p].seen)
              => AddedBy(p, race_wt_path(checkout, procs[p].name))
    /\ \A f \in files :
          WritesTo(f.path) # {} =>
              LET last == CHOOSE k \in WritesTo(f.path) : \A j \in WritesTo(f.path) : j <= k
              IN  f.content = writes[last].content

\* both processes passed the check and both ran git worktree add for the
\* same path; the second to run it failed
C24_Witness ==
    /\ DOMAIN procs = Procs
    /\ race_wt_path(checkout, procs[1].name) = race_wt_path(checkout, procs[2].name)
    /\ \A p \in Procs : AddedBy(p, race_wt_path(checkout, procs[p].name))
    /\ \E p \in Procs : procs[p].pc = "raised"

\* the two processes wrote different context files to one path, and the
\* file holds the second
C24_Overwritten ==
    \E i, j \in DOMAIN writes :
        /\ i < j
        /\ writes[i].path = writes[j].path
        /\ writes[i].by # writes[j].by
        /\ writes[i].content # writes[j].content
        /\ writes[i].content.template = "core.py"
        /\ writes[j].content.template = "core.py"
        /\ [path |-> writes[j].path, content |-> writes[j].content] \in files

(***************************************************************************)
(* cli.py: check_gitignore and init.  A file is None when it does not      *)
(* exist, else the characters it holds on disk                             *)
(***************************************************************************)
patterns_to_check ==
    { <<".","c","l","a","u","d","e","-","w","t","/","w","o","r","k","t","r","e","e","s">>, <<".","c","l","a","u","d","e","-","w","t","/","w","o","r","k","t","r","e","e","s","/">>, <<".","c","l","a","u","d","e","-","w","t","/","*">>, <<".","c","l","a","u","d","e","-","w","t","/","*","*">>,
      <<".","c","l","a","u","d","e","-","w","t">>, <<".","c","l","a","u","d","e">> }

\* the pieces between the carriage returns, put together again: a carriage
\* return before "\n" is dropped, any other becomes "\n"
RECURSIVE universal_newlines(_)
universal_newlines(pieces) ==
    IF Len(pieces) = 1 THEN pieces[1]
    ELSE pieces[1]
         \o (IF pieces[2] # <<>> /\ pieces[2][1] = "\n" THEN <<>> ELSE newline)
         \o universal_newlines(Tail(pieces))

\* Path.read_text(): open() in text mode reads "\r\n" and "\r" as "\n"
read_text(file) == universal_newlines(SplitOn(file[1], "\r"))

\* os.linesep
linesep == "\n"

\* Path.write_text(): "\n" is written as os.linesep
write_text(content) ==
    Some([i \in DOMAIN content |-> IF content[i] = "\n" THEN linesep ELSE content[i]])

\* "if line in patterns_to_check" for one of the three files
has_pattern(file) ==
    /\ file # None
    /\ \E i \in DOMAIN SplitOn(read_text(file), "\n") :
          Strip(SplitOn(read_text(file), "\n")[i]) \in patterns_to_check

\* local: <repo>/.gitignore; global: ~/.gitignore; custom: the file git's
\* core.excludesfile names, None also when git names none
check_gitignore(local, global, custom) ==
    has_pattern(local) \/ has_pattern(global) \/ has_pattern(custom)

ignore_entry == <<"\n","#"," ","C","l","a","u","d","e"," ","w","o","r","k","t","r","e","e"," ","m","a","n","a","g","e","m","e","n","t","\n",".","c","l","a","u","d","e","-","w","t","/","w","o","r","k","t","r","e","e","s","\n">>

\* init writes what it read, without the entry
init_without_entry(git, local, global, custom) ==
    [gitignore |-> IF git /\ local # None THEN write_text(read_text(local)) ELSE local,
     wrote |-> git /\ local # None,
     ended |-> IF git THEN "return" ELSE "SystemExit(1)"]

\* git: whether git rev-parse --show-toplevel succeeds.  What init leaves in
\* <repo>/.gitignore, whether it wrote the file, and how it ended
init(git, local, global, custom) ==
    IF ~git THEN [gitignore |-> local, wrote |-> FALSE, ended |-> "SystemExit(1)"]
    ELSE IF check_gitignore(local, global, custom)
    THEN [gitignore |-> local, wrote |-> FALSE, ended |-> "return"]
    ELSE LET read == IF local # None THEN read_text(local) ELSE <<>>
             existing_content ==
                 IF read # <<>> /\ read[Len(read)] # "\n" THEN read \o newline ELSE read
         IN  [gitignore |-> write_text(existing_content \o ignore_entry),
              wrote |-> TRUE, ended |-> "return"]

(***************************************************************************)
(* The parsers and the path arithmetic of the commands, called on their    *)
(* own: identifier holds the argument of the call and the name of the       *)
(* function it is for                                                       *)
(***************************************************************************)
MaxLines == 3

\* lines git worktree list --porcelain prints, and lines it does not
PorcelainLines ==
    { <<"w","o","r","k","t","r","e","e"," ","/","a">>, <<"w","o","r","k","t","r","e","e"," ","/","b"," ","c">>, <<"w","o","r","k","t","r","e","e"," ">>, <<"w","o","r","k","t","r","e","e">>,
      <<"b","r","a","n","c","h"," ","r","e","f","s","/","h","e","a","d","s","/","c","l","a","u","d","e","-","w","t","-","x">>, <<"b","r","a","n","c","h"," ","c","l","a","u","d","e","-","w","t","-","x">>, <<"H","E","A","D"," ","0","a","1","b","2","c">>, <<"d","e","t","a","c","h","e","d">>, <<>> }

PorcelainTexts ==
    {JoinWith(ls, newline) : ls \in UNION {[1..n -> PorcelainLines] : n \in 0..MaxLines}}

ParseInputs == [for : {"parse_worktrees"}, text : PorcelainTexts]

\* a .gitignore of up to MaxLines lines, each ended by "\n", by "\r\n" or not
\* at all
GitignoreLines ==
    {line \o ending : line \in {<<"*",".","l","o","g">>, <<".","c","l","a","u","d","e","-","w","t","/","w","o","r","k","t","r","e","e","s">>, <<" ",".","c","l","a","u","d","e">>},
                      ending \in {newline, <<"\r", "\n">>, <<>>}}

GitignoreFiles ==
    {None} \cup {Some(JoinWith(ls, <<>>)) :
                    ls \in UNION {[1..n -> GitignoreLines] : n \in 0..MaxLines}}

\* the other two files: neither has a pattern, or one of them has
InitInputs ==
    [for : {"init"}, git : BOOLEAN, local : GitignoreFiles,
     global : {None, Some(<<".","c","l","a","u","d","e","-","w","t","/","*","\n">>)}, custom : {None}]
    \cup [for : {"init"}, git : {TRUE}, local : {None, Some(<<"*",".","l","o","g","\n">>)},
          global : {None}, custom : {Some(<<"x","\n",".","c","l","a","u","d","e","\n">>)}]

\* repository roots, some with "-worktrees" in the name, and the names of
\* worktree directories
RoundTripRoots ==
    {PathOf(r) : r \in {<<"/","h","/","d","e","v","/","p","r","o","j">>, <<"/","h","/","d","e","v","/","c","l","a","u","d","e","-","w","t">>, <<"/","p","r","o","j">>, <<"/","h","/","d","e","v","/","a","-","w","o","r","k","t","r","e","e","s">>,
                        <<"/","h","/","d","e","v","/","a","-","w","o","r","k","t","r","e","e","s","-","b">>, <<"/","h","/","x","-","w","o","r","k","t","r","e","e","s","/","p","r","o","j">>}}

RoundTripInputs ==
    [for : {"repo_root_of"}, r : RoundTripRoots,
     w : {<<"x">>, <<"c","l","a","u","d","e","-","w","t","-","x">>, <<"p","r","o","j","-","f","e","a","t","u","r","e","-","x">>, <<"a","-","w","o","r","k","t","r","e","e","s">>}]

\* what list_all_worktrees may hand to the picker: fields that are plain,
\* hold a blank, or are empty
Candidates ==
    [path : {<<"/","h","/","d","e","v","/","c","l","a","u","d","e","-","w","t","-","w","o","r","k","t","r","e","e","s","/","x">>, <<"/","h","/","m","y"," ","d","e","v","/","x">>, <<>>},
     repo : {<<"p","r","o","j">>, <<"m","y"," ","p","r","o","j">>, <<>>},
     session : {<<"x">>, <<"a"," ","b">>, <<>>}]

plain_candidate == [path |-> <<"/","h","/","d","e","v","/","c","l","a","u","d","e","-","w","t","-","w","o","r","k","t","r","e","e","s","/","y">>, repo |-> <<"p","r","o","j">>, session |-> <<"y">>]

\* no candidate, one, or two of which the second is chosen; exists: whether
\* the chosen candidate's directory is there
PickerInputs ==
    [for : {"select_worktree_fzf"}, listing : {<<>>}, exists : {FALSE}]
    \cup [for : {"select_worktree_fzf"},
          listing : {<<c>> : c \in Candidates} \cup {<<plain_candidate, c>> : c \in Candidates},
          exists : BOOLEAN]

PureInputs == ParseInputs \cup InitInputs \cup RoundTripInputs \cup PickerInputs

PureInit ==
    /\ identifier \in PureInputs
    /\ repo_name = None
    /\ called = "nothing"
    /\ returned = None
    /\ RepoIdle
    /\ WorkIdle

\* "for line in result.stdout.split("\n")" of clean and list
CallParseWorktrees ==
    /\ identifier.for = "parse_worktrees"
    /\ Return("parse_worktrees", parse_worktrees(SplitOn(identifier.text, "\n"), no_worktree))
    /\ UNCHANGED repo_name

CallInit ==
    /\ identifier.for = "init"
    /\ Return("init", init(identifier.git, identifier.local, identifier.global,
                           identifier.custom))
    /\ UNCHANGED repo_name

\* init is run again on what the first run left
CallInitAgain ==
    /\ called = "init"
    /\ called' = "init twice"
    /\ returned' = [first |-> returned,
                    second |-> init(identifier.git, returned.gitignore, identifier.global,
                                    identifier.custom)]
    /\ UNCHANGED <<identifier, repo_name, repoVars, workVars>>

\* "Get repo root from worktree parent" of switch_worktree and clean_worktrees
CallRepoRootOf ==
    /\ identifier.for = "repo_root_of"
    /\ Return("repo_root_of",
              repo_root_of(PathJoin(get_worktree_base(identifier.r), PathOf(identifier.w))))
    /\ UNCHANGED repo_name

\* the finder returns the line of the last candidate
CallSelectWorktreeFzf ==
    /\ identifier.for = "select_worktree_fzf"
    /\ LET listing == identifier.listing
           env == [dirs |-> IF identifier.exists
                            THEN {PathOf(listing[Len(listing)].path)} ELSE {}]
       IN  Return("select_worktree_fzf", select_worktree_fzf(listing, Len(listing), env))
    /\ UNCHANGED repo_name

PureNext ==
    \/ CallParseWorktrees
    \/ CallSelectWorktreeFzf
    \/ CallRepoRootOf
    \/ CallInit
    \/ CallInitAgain

SpecPure == PureInit /\ [][PureNext]_vars

(***************************************************************************)
(* Claims about the parsers and the path arithmetic                        *)
(***************************************************************************)
\* the k-th member of a set of numbers, counted from the smallest
Nth(S, k) == CHOOSE i \in S : Cardinality({j \in S : j < i}) = k - 1

C23_GitShaped ==
    /\ called = "parse_worktrees"
    /\ identifier.text = JoinWith(<<<<"w","o","r","k","t","r","e","e"," ","/","a">>, <<"w","o","r","k","t","r","e","e"," ","/","b"," ","c">>, <<"b","r","a","n","c","h"," ","r","e","f","s","/","h","e","a","d","s","/","c","l","a","u","d","e","-","w","t","-","x">>>>, newline)
    /\ returned = <<[path |-> Some(<<"/","a">>), branch |-> None],
                    [path |-> Some(<<"/","b"," ","c">>), branch |-> Some(<<"r","e","f","s","/","h","e","a","d","s","/","c","l","a","u","d","e","-","w","t","-","x">>)]>>

EndsWith(s, suffix) ==
    Len(suffix) <= Len(s) /\ SubSeq(s, Len(s) - Len(suffix) + 1, Len(s)) = suffix

Ignored == check_gitignore(identifier.local, identifier.global, identifier.custom)

\* C25: when no ignore entry is present and git names the repository, init
\* leaves a .gitignore that begins with everything the file held before and
\* ends with the .claude-wt/worktrees entry; when an entry is present it
\* writes nothing; a second run leaves the file as the first run left it.
C25_InitOnlyAppends ==
    /\ called = "init" =>
          /\ (~Ignored /\ identifier.git) =>
                /\ returned.wrote
                /\ StartsWith(returned.gitignore[1], GetStr(identifier.local))
                /\ EndsWith(returned.gitignore[1], <<".","c","l","a","u","d","e","-","w","t","/","w","o","r","k","t","r","e","e","s","\n">>)
          /\ Ignored => ~returned.wrote /\ returned.gitignore = identifier.local
    /\ called = "init twice" =>
          /\ ~returned.second.wrote
          /\ returned.second.gitignore = returned.first.gitignore

\* the same for a .gitignore that has no carriage return
C25_InitOnlyAppendsToUnixText ==
    (identifier.for = "init" /\ "\r" \notin Range(GetStr(identifier.local)))
        => C25_InitOnlyAppends

\* init ran twice on a .gitignore without an entry whose last line is not
\* ended, and wrote once
C25_Twice ==
    /\ called = "init twice"
    /\ identifier.local = Some(<<"*",".","l","o","g","\n","*",".","l","o","g">>)
    /\ returned.first.wrote
    /\ returned.first.gitignore = Some(<<"*",".","l","o","g","\n","*",".","l","o","g","\n","\n","#"," ","C","l","a","u","d","e"," ","w","o","r","k","t","r","e","e"," ","m","a","n","a","g","e","m","e","n","t","\n",".","c","l","a","u","d","e","-","w","t","/","w","o","r","k","t","r","e","e","s","\n">>)

\* C26: for every repository root r and every worktree directory name w, the
\* repository root that switch_worktree and clean_worktrees derive from the
\* path get_worktree_base(r)/w is r, whatever the repository's name.
C26_RepoRootRoundTrip ==
    called = "repo_root_of" => returned = identifier.r

\* the same for repositories whose name does not contain "-worktrees"
C26_RoundTripOfPlainNames ==
    (called = "repo_root_of" /\ ~Contains(PathName(identifier.r), worktrees_suffix))
        => returned = identifier.r

\* the root of a repository below a directory named x-worktrees was derived
C26_Derived ==
    /\ called = "repo_root_of"
    /\ identifier.r = PathOf(<<"/","h","/","x","-","w","o","r","k","t","r","e","e","s","/","p","r","o","j">>)
    /\ returned = identifier.r

Chosen == identifier.listing[Len(identifier.listing)]

\* C27: when the finder returns the line select_worktree_fzf rendered for a
\* candidate, the function returns that candidate's path, repo and session,
\* whatever the fields hold; with no candidates it returns None.
C27_PickerRoundTrip ==
    called = "select_worktree_fzf" =>
        IF identifier.listing = <<>> THEN returned = None
        ELSE returned = Some([path |-> Chosen.path, repo |-> Chosen.repo,
                              session |-> Chosen.session])

HasBlank(field) == field = <<>> \/ \E i \in DOMAIN field : IsSpace(field[i])

\* the same for candidates whose fields are not empty and hold no whitespace
C27_RoundTripOfPlainFields ==
    (/\ called = "select_worktree_fzf"
     /\ identifier.listing # <<>>
     /\ ~HasBlank(Chosen.path) /\ ~HasBlank(Chosen.repo) /\ ~HasBlank(Chosen.session))
        => returned = Some([path |-> Chosen.path, repo |-> Chosen.repo,
                            session |-> Chosen.session])

\* a plain candidate whose directory is gone was chosen from two and returned
C27_Picked ==
    /\ called = "select_worktree_fzf"
    /\ Len(identifier.listing) = 2
    /\ ~identifier.exists
    /\ ~HasBlank(Chosen.path) /\ ~HasBlank(Chosen.repo) /\ ~HasBlank(Chosen.session)
    /\ returned # None

==============================================================================
